---- MODULE Spec2Model ----
(***************************************************************************)
(* Smart routing extension: candidate ranking (router.py) and the fallback *)
(* executor SmartRouterProvider.chat (__init__.py).                        *)
(*                                                                         *)
(* Costs are input costs per 1M tokens in tenths (0.1 -> 1, 1.0 -> 10).    *)
(* Confidences are in units of 1e-7 (0.95 -> 9500000).                     *)
(***************************************************************************)
EXTENDS Integers, Sequences, FiniteSets, TLC

\* ------------------------------------------------------------------ bounds
MaxRequests == 2
MaxModels == 2
MaxPreferred == 2

\* --------------------------------------------------------------- constants
\* None where a string is expected, Nil where a record is expected
None == "None"
Nil == [nil |-> TRUE]
Inf == 1000000
SMART_ROUTING == "smart_routing"
TIERS == <<"SIMPLE", "MEDIUM", "COMPLEX", "REASONING">>
TierSet == {TIERS[i] : i \in 1..Len(TIERS)}
TIER_RANK == [t \in TierSet |-> CASE t = "SIMPLE" -> 0 [] t = "MEDIUM" -> 1
                                  [] t = "COMPLEX" -> 2 [] t = "REASONING" -> 3]
TIER_COST_THRESHOLDS == [t \in TierSet |-> CASE t = "SIMPLE" -> 10 [] t = "MEDIUM" -> 50
                                  [] t = "COMPLEX" -> 200 [] t = "REASONING" -> 500]

\* ------------------------------------------------------- generic helpers
RECURSIVE Concat(_)
Concat(ss) == IF Len(ss) = 0 THEN <<>> ELSE Head(ss) \o Concat(Tail(ss))

Reversed(seq) == [k \in 1..Len(seq) |-> seq[Len(seq) + 1 - k]]

RECURSIVE SumOver(_, _)
SumOver(f, S) == IF S = {} THEN 0
                 ELSE LET x == CHOOSE y \in S : TRUE IN f[x] + SumOver(f, S \ {x})

\* ---------------------------------------------------- strings of the catalog
\* str.lower() on the model names used in the catalogs below
Lower(name) == CASE name = "Flash" -> "flash"
                 [] name = "Org/Flash" -> "org/flash"
                 [] OTHER -> name
\* "/" in name
HasSlash(name) == name \in {"org/flash", "Org/Flash"}
\* name.split("/")[-1]
LastSegment(name) == CASE name = "org/flash" -> "flash"
                       [] name = "Org/Flash" -> "Flash"
                       [] OTHER -> name

\* ------------------------------------------------ provider (catalog entry)
\* A provider is [id, models]; models is the ordered dict of the provider:
\* a sequence of entries [key, id, cost, tool_call, reasoning], where id is
\* the descriptor's "id" (None when absent) and cost is <<n>> for a numeric
\* input cost n and <<>> for a missing or non-numeric one.
CandidateId(entry) == IF entry.id # None THEN entry.id ELSE entry.key

EntryResolves(entry, model) ==
    \/ Lower(model) = Lower(entry.key)
    \/ Lower(model) = Lower(CandidateId(entry))
    \/ HasSlash(CandidateId(entry)) /\ Lower(LastSegment(CandidateId(entry))) = Lower(model)

\* DummyProvider.provider_model: first entry, in dict order, that matches
provider_model(provider, model) ==
    LET hits == {i \in 1..Len(provider.models) : EntryResolves(provider.models[i], model)}
    IN IF hits = {} THEN None
       ELSE CandidateId(provider.models[CHOOSE i \in hits : \A j \in hits : i <= j])

\* DummyProvider.model_info
model_info(provider, model) ==
    LET resolved == provider_model(provider, model)
        hits == {i \in 1..Len(provider.models) :
                    \/ Lower(CandidateId(provider.models[i])) = Lower(resolved)
                    \/ Lower(provider.models[i].key) = Lower(resolved)}
    IN IF resolved = None \/ hits = {} THEN Nil
       ELSE provider.models[CHOOSE i \in hits : \A j \in hits : i <= j]

\* providers.get(provider_id) on the ordered catalog
HasProvider(providers, pid) == \E i \in 1..Len(providers) : providers[i].id = pid
GetProvider(providers, pid) ==
    providers[CHOOSE i \in 1..Len(providers) : providers[i].id = pid]

ModelsGet(provider, key) ==
    LET hits == {i \in 1..Len(provider.models) : provider.models[i].key = key}
    IN IF hits = {} THEN Nil ELSE provider.models[CHOOSE i \in hits : TRUE]

\* ------------------------------------------------------------- router.py
input_cost(info) == IF Len(info.cost) = 0 THEN Inf ELSE info.cost[1]

router_model_info(provider, requested_model, resolved_model) ==
    LET a == model_info(provider, requested_model)
        b == model_info(provider, resolved_model)
    IN IF a # Nil THEN a
       ELSE IF b # Nil THEN b
       ELSE ModelsGet(provider, resolved_model)

\* required_caps is a function from capability names to BOOLEAN
meets_capabilities(info, required_caps) ==
    \A capability \in DOMAIN required_caps :
        required_caps[capability] => info[capability]

\* list.sort(key=lambda item: item[0]): stable, ascending by cost
RECURSIVE InsertByCost(_, _)
InsertByCost(sorted, item) ==
    IF Len(sorted) = 0 THEN <<item>>
    ELSE IF input_cost(item.info) < input_cost(sorted[Len(sorted)].info)
         THEN Append(InsertByCost(SubSeq(sorted, 1, Len(sorted) - 1), item), sorted[Len(sorted)])
         ELSE Append(sorted, item)

RECURSIVE SortByCost(_)
SortByCost(items) ==
    IF Len(items) = 0 THEN <<>>
    ELSE InsertByCost(SortByCost(SubSeq(items, 1, Len(items) - 1)), items[Len(items)])

RECURSIVE FindUnsorted(_, _, _)
FindUnsorted(model_name, providers, required_caps) ==
    IF Len(providers) = 0 THEN <<>>
    ELSE LET provider == Head(providers)
             resolved == provider_model(provider, model_name)
             info == router_model_info(provider, model_name, resolved)
             rest == FindUnsorted(model_name, Tail(providers), required_caps)
         IN IF provider.id = SMART_ROUTING THEN rest
            ELSE IF resolved = None THEN rest
            ELSE IF info = Nil \/ ~meets_capabilities(info, required_caps) THEN rest
            ELSE <<[provider |-> provider.id, model |-> resolved, info |-> info]>> \o rest

\* the providers in catalog order, the sort by cost left out
find_provider_candidates_unsorted(model_name, providers, required_caps) ==
    FindUnsorted(model_name, providers, required_caps)

find_provider_candidates_for_model(model_name, providers, required_caps) ==
    SortByCost(FindUnsorted(model_name, providers, required_caps))

RECURSIVE ModelsWithin(_, _, _, _)
ModelsWithin(pid, models, required_caps, max_cost) ==
    IF Len(models) = 0 THEN <<>>
    ELSE LET info == Head(models)
             rest == ModelsWithin(pid, Tail(models), required_caps, max_cost)
         IN IF meets_capabilities(info, required_caps) /\ input_cost(info) <= max_cost
            THEN <<[provider |-> pid, model |-> info.key, info |-> info]>> \o rest
            ELSE rest

RECURSIVE FallbackUnsorted(_, _, _)
FallbackUnsorted(providers, required_caps, max_cost) ==
    IF Len(providers) = 0 THEN <<>>
    ELSE LET provider == Head(providers)
             rest == FallbackUnsorted(Tail(providers), required_caps, max_cost)
         IN IF provider.id = SMART_ROUTING THEN rest
            ELSE ModelsWithin(provider.id, provider.models, required_caps, max_cost) \o rest

fallback_by_cost_candidates(tier, providers, required_caps) ==
    SortByCost(FallbackUnsorted(providers, required_caps,
        IF tier \in TierSet THEN TIER_COST_THRESHOLDS[tier] ELSE 500))

RECURSIVE any_available_models(_)
any_available_models(providers) ==
    IF Len(providers) = 0 THEN <<>>
    ELSE LET provider == Head(providers)
             rest == any_available_models(Tail(providers))
         IN IF provider.id = SMART_ROUTING THEN rest
            ELSE [i \in 1..Len(provider.models) |->
                    [provider |-> provider.id, model |-> provider.models[i].key,
                     info |-> provider.models[i]]] \o rest

CandidateKey(candidate) == <<candidate.provider, candidate.model>>

RECURSIVE DedupeLoop(_, _)
DedupeLoop(candidates, seen) ==
    IF Len(candidates) = 0 THEN <<>>
    ELSE IF CandidateKey(Head(candidates)) \in seen
         THEN DedupeLoop(Tail(candidates), seen)
         ELSE <<Head(candidates)>>
              \o DedupeLoop(Tail(candidates), seen \cup {CandidateKey(Head(candidates))})

\* de-duplication that keeps the last occurrence of a pair
dedupe_keep_last(candidates) == Reversed(DedupeLoop(Reversed(candidates), {}))

dedupe_candidates(candidates) == DedupeLoop(candidates, {})

tier_preferences(agentic, preferences, agentic_preferences) ==
    IF agentic THEN agentic_preferences ELSE preferences

\* the candidates of the preferred-model passes, one list per preferred model
PreferredPasses(preferred_models, providers, required_caps) ==
    [k \in 1..Len(preferred_models) |->
        find_provider_candidates_for_model(preferred_models[k], providers, required_caps)]

\* a ranker without the last-resort pass
last_resort_skipped(candidates, providers) == candidates

\* if not candidates: candidates.extend(_any_available_models(providers))
last_resort(candidates, providers) ==
    IF Len(candidates) = 0 THEN any_available_models(providers) ELSE candidates

\* the concatenated list before de-duplication
RawCandidates(tier, agentic, providers, preferences, agentic_preferences) ==
    LET prefs == tier_preferences(agentic, preferences, agentic_preferences)
        tier_pref == IF tier \in DOMAIN prefs THEN prefs[tier]
                     ELSE [preferred_models |-> <<>>, capabilities |-> <<>>]
        required_caps == tier_pref.capabilities
        preferred == Concat(PreferredPasses(tier_pref.preferred_models, providers, required_caps))
        ranked == preferred \o fallback_by_cost_candidates(tier, providers, required_caps)
    IN last_resort(ranked, providers)

rank_candidates(tier, agentic, providers, preferences, agentic_preferences) ==
    dedupe_candidates(RawCandidates(tier, agentic, providers, preferences, agentic_preferences))

\* -------------------------------------------------------------- config.py
NoCaps == [c \in {} |-> TRUE]

DEFAULT_TIER_PREFERENCES == [t \in TierSet |->
    CASE t = "SIMPLE" ->
           [preferred_models |-> <<"gemini-2.5-flash", "deepseek-chat", "gpt-4o-mini">>,
            capabilities |-> NoCaps]
      [] t = "MEDIUM" ->
           [preferred_models |-> <<"deepseek-chat", "gpt-4o-mini", "gemini-2.5-flash">>,
            capabilities |-> NoCaps]
      [] t = "COMPLEX" ->
           [preferred_models |-> <<"gemini-2.5-pro", "claude-sonnet-4", "gpt-4o">>,
            capabilities |-> NoCaps]
      [] t = "REASONING" ->
           [preferred_models |-> <<"deepseek-reasoner", "o3-mini", "gemini-2.5-pro">>,
            capabilities |-> [reasoning |-> TRUE]]]

DEFAULT_AGENTIC_PREFERENCES == [t \in TierSet |->
    CASE t = "SIMPLE" ->
           [preferred_models |-> <<"claude-haiku-4.5", "gpt-4o-mini", "gemini-2.5-flash">>,
            capabilities |-> [tool_call |-> TRUE]]
      [] t = "MEDIUM" ->
           [preferred_models |-> <<"claude-sonnet-4", "gpt-4o", "gemini-2.5-flash">>,
            capabilities |-> [tool_call |-> TRUE]]
      [] t = "COMPLEX" ->
           [preferred_models |-> <<"claude-sonnet-4", "claude-opus-4", "gpt-4o">>,
            capabilities |-> [tool_call |-> TRUE]]
      [] t = "REASONING" ->
           [preferred_models |-> <<"claude-sonnet-4", "deepseek-reasoner", "gemini-2.5-pro">>,
            capabilities |-> [tool_call |-> TRUE]]]

DEFAULT_OVERRIDES ==
    [maxTokensForceComplex |-> 100000, structuredOutputMinTier |-> "MEDIUM",
     ambiguousDefaultTier |-> "MEDIUM", agenticMode |-> FALSE]

default_config ==
    [overrides |-> DEFAULT_OVERRIDES,
     tierPreferences |-> DEFAULT_TIER_PREFERENCES,
     agenticPreferences |-> DEFAULT_AGENTIC_PREFERENCES]

\* ------------------------------------------------- catalogs and requests
Entry(key, id, cost, tool_call, reasoning) ==
    [key |-> key, id |-> id, cost |-> cost, tool_call |-> tool_call, reasoning |-> reasoning]

\* the virtual provider registered by load(): providers["smart_routing"]
SmartRouterEntry ==
    [id |-> SMART_ROUTING, models |-> <<Entry("auto", "auto", <<0>>, TRUE, TRUE)>>]

\* test_provider_fallback_when_first_candidate_fails
FallbackCatalog ==
    <<[id |-> "provider_a",
       models |-> <<Entry("gemini-2.5-flash", "gemini-2.5-flash", <<1>>, FALSE, FALSE)>>],
      [id |-> "provider_b",
       models |-> <<Entry("gemini-2.5-flash", "gemini-2.5-flash", <<2>>, FALSE, FALSE)>>]>>

\* test_provider_selection_is_pinned_within_context
PinnedCatalog ==
    <<[id |-> "provider_a", models |-> <<Entry("flash", "flash", <<1>>, FALSE, FALSE)>>],
      [id |-> "provider_b", models |-> <<Entry("pro", "pro", <<50>>, FALSE, FALSE)>>]>>

PinnedConfig ==
    [default_config EXCEPT
        !.tierPreferences = [DEFAULT_TIER_PREFERENCES EXCEPT
            !["SIMPLE"] = [preferred_models |-> <<"flash">>, capabilities |-> NoCaps],
            !["REASONING"] = [preferred_models |-> <<"pro">>, capabilities |-> NoCaps]]]

\* a catalog that holds nothing but the router's own entry
EmptyCatalog == <<SmartRouterEntry>>

\* a provider whose dict key differs from the descriptor id, next to the
\* router's own entry and a tool-calling model
AliasCatalog ==
    <<SmartRouterEntry,
      [id |-> "provider_a", models |-> <<Entry("fast", "org/flash", <<5>>, FALSE, FALSE)>>],
      [id |-> "provider_b", models |-> <<Entry("gpt-4o-mini", None, <<1>>, TRUE, FALSE)>>]>>

Scenarios ==
    {[providers |-> FallbackCatalog, config |-> default_config],
     [providers |-> PinnedCatalog, config |-> PinnedConfig],
     [providers |-> EmptyCatalog, config |-> default_config],
     [providers |-> AliasCatalog, config |-> default_config]}

ProviderIds == {"provider_a", "provider_b", SMART_ROUTING}

\* A chat request, with the ScoringResult that classify returns for it under
\* DEFAULT_SCORING_CONFIG (agentic_score in hundredths), the estimated token
\* count, whether a system prompt is present and matches
\* json|structured|schema, and bool(chat.get("tools")).
Chat(prompt, tier, confidence, agentic_score, tokens, structured, tools) ==
    [prompt |-> prompt,
     result |-> [tier |-> tier, confidence |-> confidence, agentic_score |-> agentic_score],
     estimated_tokens |-> tokens, structured |-> structured, has_tools |-> tools]

Chats ==
    {Chat("What is Python?", "SIMPLE", 7685248, 0, 4, FALSE, FALSE),
     Chat("Prove the theorem step by step", "REASONING", 9734030, 0, 8, FALSE, FALSE),
     Chat("What is Python? / Return json", None, 5389211, 0, 7, TRUE, FALSE),
     Chat("Read file, edit the file, run command, then deploy and fix and debug step 1",
          None, 5861325, 100, 19, FALSE, TRUE)}

Contexts == {"c1", "c2"}

\* ----------------------------------------------------------------- state
VARIABLES
    providers,  \* ctx.get_providers(): the ordered provider catalog
    config,     \* SmartRouterProvider.config (normalized)
    context,    \* the conversation context dicts, by context id
    g_stats,    \* the process-wide statistics
    req,        \* the chat coroutines, by request number
    calls,      \* per request, the provider.chat invocations made so far
    rk,         \* input and result of a rank_candidates call
    nz,         \* input and results of normalize_config calls
    cl,         \* input and result of a classify call
    ta          \* input and result of the tier adjustments of chat

vars == <<providers, config, context, g_stats, req, calls, rk, nz, cl, ta>>

Requests == 1..MaxRequests

\* round(x, 6) and round(x, 3) on a value in units of 1e-7
RoundTo(x, unit) == ((x + unit \div 2) \div unit) * unit
Round6(x) == RoundTo(x, 10)
Round3(x) == RoundTo(x, 10000)

\* the conversation context is the caller's dict: selection stands for the
\* key _smart_routing_selection, threadId for a key the caller owns
EmptyContext ==
    [selection |-> Nil, provider |-> None, modelInfo |-> Nil, modelCost |-> <<>>,
     threadId |-> "t1"]

\* a context handed in by the caller whose pin names a model that the
\* catalog does not serve
StaleContext ==
    [EmptyContext EXCEPT !.selection =
        [provider |-> "provider_a", model |-> "retired", tier |-> "SIMPLE",
         confidence |-> 9000000, agentic |-> FALSE]]

IdleRequest ==
    [pc |-> "idle", ctx |-> None, chat |-> Nil, model |-> "auto", tier |-> None,
     confidence |-> 0, use_agentic |-> FALSE, candidates |-> <<>>, pinned |-> FALSE,
     index |-> 0, first_exception |-> Nil, outcome |-> Nil]

ZeroStats ==
    [total_routed |-> 0,
     tiers |-> [t \in TierSet |-> 0],
     providers |-> [p \in ProviderIds |-> 0],
     ambiguous |-> 0, fallback_attempts |-> 0, candidate_failures |-> 0]

\* ------------------------------------------ SmartRouterProvider (__init__.py)
\* a pin lookup that never finds the pin
get_pinned_selection_miss(ctx, provs) == Nil

get_pinned_selection(ctx, provs) ==
    IF ctx = Nil THEN Nil
    ELSE IF ctx.selection = Nil THEN Nil
    ELSE LET provider_id == ctx.selection.provider
             model_id == ctx.selection.model
         IN IF provider_id = None \/ model_id = None THEN Nil
            ELSE IF ~HasProvider(provs, provider_id) \/ provider_id = SMART_ROUTING THEN Nil
            ELSE LET provider == GetProvider(provs, provider_id)
                     resolved == provider_model(provider, model_id)
                     a == model_info(provider, model_id)
                     b == model_info(provider, resolved)
                     info == IF a # Nil THEN a ELSE IF b # Nil THEN b
                             ELSE ModelsGet(provider, resolved)
                 IN IF resolved = None THEN Nil
                    ELSE IF info = Nil THEN Nil
                    ELSE [provider |-> provider_id, model |-> resolved, info |-> info]

pin_selection(ctx, provider_id, model_id, tier, confidence, agentic) ==
    IF ctx = Nil THEN Nil
    ELSE [ctx EXCEPT !.selection =
            [provider |-> provider_id, model |-> model_id, tier |-> tier,
             confidence |-> Round6(confidence), agentic |-> agentic]]

\* the context rebuilt from the provider information alone
update_context_rebuilt(ctx, provider, provider_id, model_id) ==
    IF ctx = Nil THEN Nil
    ELSE LET a == model_info(provider, model_id)
             resolved == provider_model(provider, model_id)
             b == model_info(provider, IF resolved # None THEN resolved ELSE model_id)
             info == IF a # Nil THEN a ELSE b
         IN IF info = Nil
            THEN [ctx EXCEPT !.provider = provider_id, !.threadId = None]
            ELSE [ctx EXCEPT !.provider = provider_id, !.modelInfo = info,
                             !.modelCost = info.cost, !.threadId = None]

update_context_provider_info(ctx, provider, provider_id, model_id) ==
    IF ctx = Nil THEN Nil
    ELSE LET a == model_info(provider, model_id)
             resolved == provider_model(provider, model_id)
             b == model_info(provider, IF resolved # None THEN resolved ELSE model_id)
             info == IF a # Nil THEN a ELSE b
         IN IF info = Nil THEN [ctx EXCEPT !.provider = provider_id]
            ELSE [ctx EXCEPT !.provider = provider_id, !.modelInfo = info,
                             !.modelCost = info.cost]

\* agentic from three matching keywords on
UseAgenticFromThreeKeywords(chat, overrides) ==
    chat.has_tools \/ chat.result.agentic_score >= 60 \/ overrides.agenticMode

\* lines 433-438
UseAgentic(chat, overrides) ==
    chat.has_tools \/ chat.result.agentic_score >= 75 \/ overrides.agenticMode

\* forced at the threshold already
ForcedComplexAtThreshold(chat, overrides) ==
    chat.estimated_tokens >= overrides.maxTokensForceComplex

\* lines 446-449
ForcedComplex(chat, overrides) == chat.estimated_tokens > overrides.maxTokensForceComplex

\* lines 451-455: the classification is still ambiguous after the token override
IsAmbiguous(chat, overrides) == ~ForcedComplex(chat, overrides) /\ chat.result.tier = None

\* lines 440-455
BaseTier(chat, overrides) ==
    IF ForcedComplex(chat, overrides) THEN "COMPLEX"
    ELSE IF chat.result.tier = None THEN overrides.ambiguousDefaultTier
    ELSE chat.result.tier

\* the classifier's confidence kept for an ambiguous result
BaseConfidenceUnsubstituted(chat, overrides) ==
    IF ForcedComplex(chat, overrides) THEN 9500000 ELSE chat.result.confidence
BaseConfidence(chat, overrides) ==
    IF ForcedComplex(chat, overrides) THEN 9500000
    ELSE IF chat.result.tier = None THEN 5000000
    ELSE chat.result.confidence

\* the minimum tier taken whenever the system prompt matches
StructuredTierAlways(tier, chat, overrides) ==
    IF chat.structured THEN overrides.structuredOutputMinTier ELSE tier

\* lines 457-461
StructuredTier(tier, chat, overrides) ==
    IF chat.structured /\ TIER_RANK[tier] < TIER_RANK[overrides.structuredOutputMinTier]
    THEN overrides.structuredOutputMinTier
    ELSE tier

AdjustedTier(chat, overrides) == StructuredTier(BaseTier(chat, overrides), chat, overrides)

\* the empty list is not told apart
NeverNoCandidates(candidates) == FALSE

\* line 485
HasNoCandidates(candidates) == Len(candidates) = 0

\* the walk skips a candidate
NextIndexSkipping(index) == index + 2

\* line 489: enumerate(candidates)
NextIndex(index) == index + 1

\* lines 491-493: the first index from start on whose provider can be invoked
RECURSIVE NextInvocable(_, _, _)
NextInvocable(candidates, provs, start) ==
    IF start >= Len(candidates) THEN Len(candidates)
    ELSE IF \/ ~HasProvider(provs, candidates[start + 1].provider)
            \/ candidates[start + 1].provider = SMART_ROUTING
         THEN NextInvocable(candidates, provs, start + 1)
         ELSE start

\* every remaining candidate is started at once
AttemptAllRemaining(candidates, index) == index..(Len(candidates) - 1)

\* line 503: the invocations started when the walk reaches index
AttemptBatch(candidates, index) == {index}

BeginInvocations(candidates, index) ==
    LET batch == AttemptBatch(candidates, index)
        picked == SelectSeq([k \in 1..Len(candidates) |-> k - 1], LAMBDA i : i \in batch)
    IN [k \in 1..Len(picked) |->
          [index |-> picked[k], provider |-> candidates[picked[k] + 1].provider,
           model |-> candidates[picked[k] + 1].model, status |-> "pending"]]

\* the exception DummyProvider.chat raises for an invocation
ProviderException(provider_id, model_id) ==
    [msg |-> "forced failure", provider |-> provider_id, model |-> model_id]

NoCandidatesError ==
    [msg |-> "Smart routing: no available provider candidates",
     provider |-> SMART_ROUTING, model |-> None]

UnfulfilledError ==
    [msg |-> "Smart routing: no candidate provider could fulfill this request",
     provider |-> SMART_ROUTING, model |-> None]

\* the last exception is kept
RememberLastException(first_exception, ex) == ex

\* lines 506-507
RememberException(first_exception, ex) ==
    IF first_exception = Nil THEN ex ELSE first_exception

\* the generic message whatever was remembered
ExhaustedErrorGeneric(first_exception) == UnfulfilledError

\* lines 537-539
ExhaustedError(first_exception) ==
    IF first_exception # Nil THEN first_exception ELSE UnfulfilledError

\* the zero-based index is reported
AttemptsZeroBased(index) == index

\* line 532
Attempts(index) == index + 1

\* the provider count is not updated
RecordRoutedNoProvider(stats, tier, provider_id) ==
    [stats EXCEPT !.total_routed = @ + 1, !.tiers[tier] = @ + 1]

\* lines 513-515
RecordRouted(stats, tier, provider_id) ==
    [stats EXCEPT !.total_routed = @ + 1,
                  !.tiers[tier] = @ + 1,
                  !.providers[provider_id] = @ + 1]

SetStatus(log, index, status) ==
    [k \in 1..Len(log) |->
        IF log[k].index = index /\ log[k].status = "pending"
        THEN [log[k] EXCEPT !.status = status] ELSE log[k]]

\* lines 489-503 and 537-539: from index start on, skip the candidates whose
\* provider is gone, then start the next invocation or raise
Dispatch(r, rq, stats, log, start) ==
    LET i == NextInvocable(rq.candidates, providers, start)
    IN IF i >= Len(rq.candidates)
       THEN /\ req' = [req EXCEPT ![r] = [rq EXCEPT
                        !.pc = "done", !.index = i,
                        !.outcome = [kind |-> "error",
                                     error |-> ExhaustedError(rq.first_exception)]]]
            /\ g_stats' = stats
            /\ calls' = [calls EXCEPT ![r] = log]
            /\ UNCHANGED context
       ELSE LET candidate == rq.candidates[i + 1]
            IN /\ req' = [req EXCEPT ![r] = [rq EXCEPT
                            !.pc = "awaiting", !.index = i, !.model = candidate.model]]
               /\ g_stats' = [stats EXCEPT
                            !.fallback_attempts = @ + (IF i > 0 THEN 1 ELSE 0)]
               /\ calls' = [calls EXCEPT ![r] = log \o BeginInvocations(rq.candidates, i)]
               /\ context' = IF rq.ctx = None THEN context
                             ELSE [context EXCEPT ![rq.ctx] =
                                    update_context_provider_info(@,
                                        GetProvider(providers, candidate.provider),
                                        candidate.provider, candidate.model)]

\* chat(), lines 426-503: classification, tier adjustments, pin lookup or
\* ranking, and the walk up to the first awaited invocation
ChatBegin(r, chat, c) ==
    LET overrides == config.overrides
        use_agentic == UseAgentic(chat, overrides)
        tier == AdjustedTier(chat, overrides)
        confidence == BaseConfidence(chat, overrides)
        stats == [g_stats EXCEPT !.ambiguous =
                    @ + (IF IsAmbiguous(chat, overrides) THEN 1 ELSE 0)]
        pinned_selection ==
            get_pinned_selection(IF c = None THEN Nil ELSE context[c], providers)
        pinned == pinned_selection # Nil
        candidates ==
            IF pinned THEN <<pinned_selection>>
            ELSE rank_candidates(tier, use_agentic, providers,
                                 config.tierPreferences, config.agenticPreferences)
        rq == [IdleRequest EXCEPT !.ctx = c, !.chat = chat, !.tier = tier,
                   !.confidence = confidence, !.use_agentic = use_agentic,
                   !.candidates = candidates, !.pinned = pinned]
    IN \E request \in {rq} :
        IF HasNoCandidates(request.candidates)
        THEN /\ req' = [req EXCEPT ![r] = [request EXCEPT
                         !.pc = "done",
                         !.outcome = [kind |-> "error", error |-> NoCandidatesError]]]
             /\ g_stats' = stats
             /\ UNCHANGED <<context, calls>>
        ELSE Dispatch(r, request, stats, calls[r], 0)

ChatStart(r) ==
    /\ req[r].pc = "idle"
    /\ \A q \in Requests : q < r => req[q].pc # "idle"
    /\ \E chat \in Chats, c \in Contexts : ChatBegin(r, chat, c)
    /\ UNCHANGED <<providers, config, rk, nz, cl, ta>>

\* lines 504-509, then the next iteration of the loop
InvocationFails(r) ==
    /\ req[r].pc = "awaiting"
    /\ LET rq == req[r]
           candidate == rq.candidates[rq.index + 1]
           ex == ProviderException(candidate.provider, candidate.model)
           stats == [g_stats EXCEPT !.candidate_failures = @ + 1]
           failed == [rq EXCEPT
                        !.first_exception = RememberException(rq.first_exception, ex)]
       IN Dispatch(r, failed, stats, SetStatus(calls[r], rq.index, "failed"),
                   NextIndex(rq.index))
    /\ UNCHANGED <<providers, config, rk, nz, cl, ta>>

\* lines 511-535
InvocationSucceeds(r) ==
    /\ req[r].pc = "awaiting"
    /\ LET rq == req[r]
           candidate == rq.candidates[rq.index + 1]
       IN /\ context' = IF rq.ctx = None THEN context
                        ELSE [context EXCEPT ![rq.ctx] =
                                pin_selection(@, candidate.provider, candidate.model,
                                              rq.tier, rq.confidence, rq.use_agentic)]
          /\ g_stats' = RecordRouted(g_stats, rq.tier, candidate.provider)
          /\ calls' = [calls EXCEPT ![r] = SetStatus(@, rq.index, "ok")]
          /\ req' = [req EXCEPT ![r] = [rq EXCEPT
                        !.pc = "done",
                        !.outcome =
                            [kind |-> "response",
                             routing |-> [tier |-> rq.tier,
                                          confidence |-> Round3(rq.confidence),
                                          provider |-> candidate.provider,
                                          model |-> candidate.model,
                                          agentic |-> rq.use_agentic,
                                          pinned |-> rq.pinned,
                                          attempts |-> Attempts(rq.index)]]]]
    /\ UNCHANGED <<providers, config, rk, nz, cl, ta>>

Init ==
    /\ \E s \in Scenarios : providers = s.providers /\ config = s.config
    /\ context = [c \in Contexts |-> IF c = "c1" THEN EmptyContext ELSE StaleContext]
    /\ g_stats = ZeroStats
    /\ req = [r \in Requests |-> IdleRequest]
    /\ calls = [r \in Requests |-> <<>>]
    /\ rk = Nil
    /\ nz = Nil /\ cl = Nil /\ ta = Nil

Next == \E r \in Requests : ChatStart(r) \/ InvocationFails(r) \/ InvocationSucceeds(r)

Spec == Init /\ [][Next]_vars

\* ------------------------------------------------ rank_candidates alone
\* the model descriptors the catalogs of RankSpec are built from
EntryPool ==
    {Entry("flash", None, <<1>>, TRUE, FALSE),
     Entry("flash", None, <<7>>, FALSE, FALSE),
     Entry("fast", "flash", <<5>>, FALSE, FALSE),
     Entry("pro", None, <<30>>, TRUE, TRUE),
     Entry("x", "org/flash", <<>>, FALSE, TRUE)}

PreferredNames == {"Flash", "fast", "pro", "org/flash"}

\* the dicts of at most n models (dict keys are unique)
ModelDicts(n) ==
    UNION {{m \in [1..k -> EntryPool] : \A i, j \in 1..k : i # j => m[i].key # m[j].key}
           : k \in 0..n}

RankCatalogs ==
    {<<SmartRouterEntry, [id |-> "provider_a", models |-> ma],
       [id |-> "provider_b", models |-> mb]>>
     : ma \in ModelDicts(MaxModels), mb \in ModelDicts(1)}

PreferredLists == UNION {[1..n -> PreferredNames] : n \in 1..MaxPreferred}

RankConfigs ==
    {[overrides |-> DEFAULT_OVERRIDES,
      tierPreferences |-> [t \in TierSet |->
            [preferred_models |-> names, capabilities |-> caps]],
      agenticPreferences |-> [t \in TierSet |->
            [preferred_models |-> Reversed(names), capabilities |-> [tool_call |-> TRUE]]]]
     : names \in PreferredLists, caps \in {NoCaps, [reasoning |-> TRUE]}}

RankInit ==
    /\ providers \in RankCatalogs
    /\ config \in RankConfigs
    /\ rk \in [phase : {"input"}, tier : {"SIMPLE", "MEDIUM"}, agentic : BOOLEAN,
               passes : {<<>>}, raw : {<<>>}, result : {<<>>}]
    /\ context = [c \in Contexts |-> EmptyContext]
    /\ g_stats = ZeroStats
    /\ req = [r \in Requests |-> IdleRequest]
    /\ calls = [r \in Requests |-> <<>>]
    /\ nz = Nil /\ cl = Nil /\ ta = Nil

\* one call of rank_candidates; passes and raw keep the intermediate lists
RankCall ==
    /\ rk.phase = "input"
    /\ LET prefs == tier_preferences(rk.agentic, config.tierPreferences,
                                     config.agenticPreferences)
       IN rk' = [rk EXCEPT
            !.phase = "ranked",
            !.passes = PreferredPasses(prefs[rk.tier].preferred_models, providers,
                                       prefs[rk.tier].capabilities),
            !.raw = RawCandidates(rk.tier, rk.agentic, providers,
                                  config.tierPreferences, config.agenticPreferences),
            !.result = rank_candidates(rk.tier, rk.agentic, providers,
                                       config.tierPreferences, config.agenticPreferences)]
    /\ UNCHANGED <<providers, config, context, g_stats, req, calls, nz, cl, ta>>

RankNext == RankCall

RankSpec == RankInit /\ [][RankNext]_vars

\* ===================================================== claims: ranking
RankDone == rk.phase = "ranked"

Keys(candidates) == {CandidateKey(candidates[k]) : k \in 1..Len(candidates)}
PosOf(candidates, key) ==
    CHOOSE k \in 1..Len(candidates) :
        /\ CandidateKey(candidates[k]) = key
        /\ \A j \in 1..(k - 1) : CandidateKey(candidates[j]) # key

\* C9: the list rank_candidates returns holds no (provider, model) pair twice,
\* holds every pair of the concatenated list, and each pair stands for its
\* first occurrence there: same candidate, same relative order.
C9_NoDuplicatePairs ==
    RankDone =>
        /\ \A i, j \in 1..Len(rk.result) :
                i # j => CandidateKey(rk.result[i]) # CandidateKey(rk.result[j])
        /\ Keys(rk.result) = Keys(rk.raw)
        /\ \A i \in 1..Len(rk.result) :
                rk.result[i] = rk.raw[PosOf(rk.raw, CandidateKey(rk.result[i]))]
        /\ \A i, j \in 1..Len(rk.result) :
                i < j => PosOf(rk.raw, CandidateKey(rk.result[i]))
                            < PosOf(rk.raw, CandidateKey(rk.result[j]))

\* a ranking whose concatenated list repeats a pair after a different pair
C9_Witness ==
    /\ RankDone
    /\ Len(rk.result) >= 2
    /\ \E i, j, k \in 1..Len(rk.raw) :
            /\ i < j /\ j < k
            /\ CandidateKey(rk.raw[i]) = CandidateKey(rk.raw[k])
            /\ CandidateKey(rk.raw[i]) # CandidateKey(rk.raw[j])
            /\ PosOf(rk.raw, CandidateKey(rk.raw[j])) = j

PassKeys(k) == Keys(rk.passes[k])
PassName(k) ==
    tier_preferences(rk.agentic, config.tierPreferences,
                     config.agenticPreferences)[rk.tier].preferred_models[k]
PreferredKeys == UNION {PassKeys(k) : k \in 1..Len(rk.passes)}
\* the first preferred model that produced the pair
FirstPass(key) == CHOOSE k \in 1..Len(rk.passes) :
                    key \in PassKeys(k) /\ \A j \in 1..(k - 1) : key \notin PassKeys(j)
CostIn(k, key) == input_cost(rk.passes[k][PosOf(rk.passes[k], key)].info)

PreferredBeforeFallback ==
    \A a \in PreferredKeys, b \in Keys(rk.result) \ PreferredKeys :
        PosOf(rk.result, a) < PosOf(rk.result, b)

\* C10 as stated: preferred-pass candidates precede the candidates of the cost
\* pass only; the candidates of an earlier preferred model precede those of a
\* later, different one; within one preferred model the resolving providers
\* stand in ascending input cost.
C10_AsStated ==
    RankDone =>
        /\ PreferredBeforeFallback
        /\ \A i, j \in 1..Len(rk.passes) :
              i < j /\ PassName(i) # PassName(j) =>
                  \A a \in PassKeys(i), b \in PassKeys(j) :
                      a # b => PosOf(rk.result, a) < PosOf(rk.result, b)
        /\ \A k \in 1..Len(rk.passes) : \A a, b \in PassKeys(k) :
              CostIn(k, a) < CostIn(k, b) => PosOf(rk.result, a) < PosOf(rk.result, b)

\* C10 amended: the same, with every candidate counted for the first preferred
\* model that produced it.
C10_PreferredOrder ==
    RankDone =>
        /\ PreferredBeforeFallback
        /\ \A a, b \in PreferredKeys :
              FirstPass(a) < FirstPass(b) => PosOf(rk.result, a) < PosOf(rk.result, b)
        /\ \A a, b \in PreferredKeys :
              /\ FirstPass(a) = FirstPass(b)
              /\ CostIn(FirstPass(a), a) < CostIn(FirstPass(b), b)
              => PosOf(rk.result, a) < PosOf(rk.result, b)

\* a later preferred model is cheaper than an earlier one, one preferred model
\* has a provider of unknown cost behind a priced one, and the cost pass adds
\* a candidate of its own
C10_Witness ==
    /\ RankDone
    /\ Keys(rk.result) \ PreferredKeys # {}
    /\ \E a, b \in PreferredKeys :
            /\ FirstPass(a) < FirstPass(b)
            /\ CostIn(FirstPass(b), b) < CostIn(FirstPass(a), a)
    /\ \E a, b \in PreferredKeys :
            /\ FirstPass(a) = FirstPass(b)
            /\ CostIn(FirstPass(a), a) < Inf
            /\ CostIn(FirstPass(b), b) = Inf

\* ==================================================== claims: executor
Started(r) == req[r].pc # "idle"
Done(r) == req[r].pc = "done"
Responded(r) == Done(r) /\ req[r].outcome.kind = "response"
Failed(r) == Done(r) /\ req[r].outcome.kind = "error"
Pending(r) == {k \in 1..Len(calls[r]) : calls[r][k].status = "pending"}
CallKey(call) == <<call.provider, call.model>>

\* C1: a request that found no valid pin invokes its ranked candidates in list
\* order, no pair twice; the k-th invocation is made only after the k-1
\* before it have failed; a failure does not end the walk, so a request that
\* fails has invoked every candidate; nothing is invoked after a success.
C1_WalkInListOrder ==
    \A r \in Requests : Started(r) /\ ~req[r].pinned =>
        LET log == calls[r]
            candidates == req[r].candidates
        IN /\ Len(log) <= Len(candidates)
           /\ \A k \in 1..Len(log) :
                /\ log[k].index = k - 1
                /\ CallKey(log[k]) = CandidateKey(candidates[k])
                /\ k < Len(log) => log[k].status = "failed"
           /\ \A i, j \in 1..Len(log) : i # j => CallKey(log[i]) # CallKey(log[j])
           /\ Failed(r) => /\ Len(log) = Len(candidates)
                           /\ \A k \in 1..Len(log) : log[k].status = "failed"
           /\ Responded(r) => Len(log) >= 1 /\ log[Len(log)].status = "ok"
           /\ ~Done(r) => Len(log) >= 1 /\ log[Len(log)].status = "pending"

\* one ranked request was served by its second candidate after the first
\* failed, another failed after invoking both of its candidates
C1_Witness ==
    \E r, q \in Requests :
        /\ ~req[r].pinned /\ Responded(r)
        /\ Len(calls[r]) = 2 /\ calls[r][1].status = "failed"
        /\ ~req[q].pinned /\ Failed(q)
        /\ Len(calls[q]) = 2 /\ Len(req[q].candidates) = 2

\* the catalog resolves the provider and the model a pin names
PinResolves(selection) ==
    /\ selection # Nil
    /\ HasProvider(providers, selection.provider)
    /\ selection.provider # SMART_ROUTING
    /\ provider_model(GetProvider(providers, selection.provider), selection.model) # None

ResolvedPin(selection) ==
    <<selection.provider,
      provider_model(GetProvider(providers, selection.provider), selection.model)>>

\* C2: a request that starts on a context whose pin the catalog resolves does
\* not rank: its only candidate is the pinned provider with the pinned model
\* as the provider resolves it, whatever tier the prompt classifies to; it
\* invokes nothing else and its response says pinned = true.
C2_PinnedTurnUsesPin ==
    /\ [][\A r \in Requests :
            /\ req[r].pc = "idle" /\ req'[r].pc # "idle"
            /\ req'[r].ctx # None
            /\ PinResolves(context[req'[r].ctx].selection)
            => /\ req'[r].pinned
               /\ Len(req'[r].candidates) = 1
               /\ CandidateKey(req'[r].candidates[1])
                    = ResolvedPin(context[req'[r].ctx].selection)]_vars
    /\ [](\A r \in Requests : Started(r) /\ req[r].pinned =>
            /\ Len(req[r].candidates) = 1
            /\ Len(calls[r]) = 1
            /\ CallKey(calls[r][1]) = CandidateKey(req[r].candidates[1])
            /\ Responded(r) =>
                /\ req[r].outcome.routing.pinned
                /\ req[r].outcome.routing.provider = req[r].candidates[1].provider
                /\ req[r].outcome.routing.model = req[r].candidates[1].model)

\* a SIMPLE first turn pinned provider_a, and a REASONING second turn on the
\* same context was served through that pin
C2_Witness ==
    \E r, q \in Requests :
        /\ Responded(q) /\ ~req[q].pinned /\ req[q].tier = "SIMPLE"
        /\ Responded(r) /\ req[r].pinned /\ req[r].chat.result.tier = "REASONING"
        /\ req[r].ctx = req[q].ctx
        /\ req[r].outcome.routing.provider = req[q].outcome.routing.provider
        /\ req[r].outcome.routing.pinned

\* C3: a request that had candidates and fails, fails with the exception of
\* its first invocation.
C3_FirstExceptionRaised ==
    \A r \in Requests : Failed(r) /\ Len(req[r].candidates) > 0 =>
        /\ Len(calls[r]) >= 1
        /\ req[r].outcome.error = ProviderException(calls[r][1].provider, calls[r][1].model)

\* a request failed after two invocations that raised different exceptions
C3_Witness ==
    \E r \in Requests :
        /\ Failed(r)
        /\ Len(calls[r]) = 2
        /\ CallKey(calls[r][1]) # CallKey(calls[r][2])
        /\ req[r].outcome.error # ProviderException(calls[r][2].provider, calls[r][2].model)

\* C4: a request whose candidate list is empty fails with the "no available
\* provider candidates" error and invokes nothing; no request that had
\* candidates fails with that error.
C4_NoCandidatesDistinct ==
    \A r \in Requests :
        /\ Done(r) /\ Len(req[r].candidates) = 0 =>
                /\ Failed(r)
                /\ req[r].outcome.error = NoCandidatesError
                /\ calls[r] = <<>>
        /\ Failed(r) /\ Len(req[r].candidates) > 0 =>
                req[r].outcome.error # NoCandidatesError

\* one request failed for want of candidates
C4_Witness ==
    \E r \in Requests :
        /\ Done(r) /\ ~req[r].pinned /\ Len(req[r].candidates) = 0
        /\ req[r].outcome.error = NoCandidatesError

\* C5: the attempts of a response is the number of invocations its request
\* made, the served candidate stands at that position of the walk; in the
\* two-provider catalog a SIMPLE non-agentic request whose first invocation
\* failed is served by provider_b with attempts = 2; and the dispatch that
\* succeeds pins the provider and model that served it.
C5_AttemptsCountInvocations ==
    /\ [](\A r \in Requests : Responded(r) =>
            LET routing == req[r].outcome.routing
            IN /\ routing.attempts = Len(calls[r])
               /\ routing.attempts
                    = Cardinality({k \in 1..Len(calls[r]) : calls[r][k].status = "failed"}) + 1
               /\ routing.attempts \in 1..Len(req[r].candidates)
               /\ CandidateKey(req[r].candidates[routing.attempts])
                    = <<routing.provider, routing.model>>
               /\ (/\ providers = FallbackCatalog
                   /\ req[r].tier = "SIMPLE" /\ ~req[r].use_agentic /\ ~req[r].pinned
                   /\ calls[r][1].status = "failed")
                  => /\ calls[r][1].provider = "provider_a"
                     /\ routing.provider = "provider_b"
                     /\ routing.attempts = 2)
    /\ [][\A r \in Requests :
            /\ req[r].pc = "awaiting" /\ req'[r].pc = "done"
            /\ req'[r].outcome.kind = "response"
            /\ req[r].ctx # None
            => /\ context'[req[r].ctx].selection.provider = req'[r].outcome.routing.provider
               /\ context'[req[r].ctx].selection.model = req'[r].outcome.routing.model]_vars

\* the scenario of test_provider_fallback_when_first_candidate_fails
C5_Witness ==
    \E r \in Requests :
        /\ providers = FallbackCatalog
        /\ Responded(r) /\ ~req[r].pinned
        /\ req[r].tier = "SIMPLE" /\ ~req[r].use_agentic
        /\ calls[r][1].status = "failed"
        /\ req[r].outcome.routing.attempts = 2
        /\ req[r].ctx # None
        /\ context[req[r].ctx].selection.provider = "provider_b"

\* C6: a request has at most one invocation in flight, and it is the last
\* one it started: every earlier one has completed.
C6_OneInvocationInFlight ==
    \A r \in Requests :
        /\ Cardinality(Pending(r)) <= 1
        /\ \A k \in Pending(r) : k = Len(calls[r]) /\ req[r].pc = "awaiting"
        /\ req[r].pc = "awaiting" => Pending(r) # {}

\* two requests are suspended in an invocation at once, one of them in its
\* second
C6_Witness ==
    \E r, q \in Requests :
        /\ r # q
        /\ Pending(r) # {} /\ Pending(q) # {}
        /\ Len(calls[r]) = 2

C8_StatsConsistent ==
    /\ [](/\ g_stats.total_routed = SumOver(g_stats.tiers, DOMAIN g_stats.tiers)
          /\ g_stats.total_routed = SumOver(g_stats.providers, DOMAIN g_stats.providers)
          /\ g_stats.total_routed = Cardinality({r \in Requests : Responded(r)}))
    /\ [][(\A r \in Requests :
                ~(req[r].pc = "awaiting" /\ req'[r].pc = "done"
                    /\ req'[r].outcome.kind = "response"))
            => /\ g_stats'.total_routed = g_stats.total_routed
               /\ g_stats'.tiers = g_stats.tiers
               /\ g_stats'.providers = g_stats.providers]_vars

\* one request was answered and another failed after it
C8_Witness ==
    \E r, q \in Requests :
        /\ Responded(r) /\ Failed(q) /\ Len(calls[q]) >= 1
        /\ g_stats.total_routed = 1
        /\ g_stats.candidate_failures >= 1

\* ============================================ claims: ranking, last resort
\* the capabilities the ranked tier requires
RankCaps ==
    tier_preferences(rk.agentic, config.tierPreferences,
                     config.agenticPreferences)[rk.tier].capabilities

\* the (provider, model key) pairs of every model of every routable provider
CatalogKeys ==
    UNION {{<<providers[i].id, providers[i].models[m].key>>
                : m \in 1..Len(providers[i].models)}
           : i \in {j \in 1..Len(providers) : providers[j].id # SMART_ROUTING}}

\* no model of any routable provider has the required capabilities
CapsUnsatisfiable ==
    \A i \in 1..Len(providers) : providers[i].id # SMART_ROUTING =>
        \A m \in 1..Len(providers[i].models) :
            ~meets_capabilities(providers[i].models[m], RankCaps)

JNone == [t |-> "none", n |-> 0, s |-> "", items |-> <<>>, d |-> <<>>]
JBool(b) == [JNone EXCEPT !.t = "bool", !.n = IF b THEN 1 ELSE 0]
JInt(n) == [JNone EXCEPT !.t = "int", !.n = n]
JFloat(n) == [JNone EXCEPT !.t = "float", !.n = n]
JNaN == [JNone EXCEPT !.t = "float", !.s = "nan"]
JInf == [JNone EXCEPT !.t = "float", !.n = 1000000000, !.s = "inf"]
JStr(s) == [JNone EXCEPT !.t = "str", !.s = s]
JList(items) == [JNone EXCEPT !.t = "list", !.items = items]
JDict(d) == [JNone EXCEPT !.t = "dict", !.d = d]
\* an exception that leaves the function
JRaise(name) == [JNone EXCEPT !.t = "raise", !.s = name]

IsDict(v) == v.t = "dict"
Raised(v) == v.t = "raise"
\* dict.get(key), None when the key is missing
DictGet(v, key) == IF key \in DOMAIN v.d THEN v.d[key] ELSE JNone

\* str.strip(), str.upper() and the number parsers on the strings used in
\* the configurations below
Strip(s) == CASE s = " x " -> "x" [] s = " a " -> "a" [] s = " proof " -> "proof"
              [] s = " OFF " -> "OFF" [] s = " " -> "" [] OTHER -> s
Upper(s) == CASE s = "complex" -> "COMPLEX" [] s = "simple" -> "SIMPLE"
              [] s = "Reasoning" -> "REASONING" [] s = "none" -> "NONE"
              [] s = "x" -> "X" [] OTHER -> s
LowerWord(s) == CASE s = "OFF" -> "off" [] s = "Yes" -> "yes" [] OTHER -> s
\* int(str): <<n>>, or <<>> for ValueError
ParseInt(s) == CASE s = "12" -> <<12>> [] s = "7" -> <<7>> [] OTHER -> <<>>
\* float(str) in hundredths: a float value, or JNone for ValueError
ParseFloat(s) == CASE s = "12" -> JFloat(1200) [] s = "7" -> JFloat(700)
                   [] s = "0.3" -> JFloat(30) [] s = "0.25" -> JFloat(25)
                   [] s = "2.7" -> JFloat(270) [] s = "nan" -> JNaN
                   [] s = "inf" -> JInf [] OTHER -> JNone

\* int(value): the int, or the exception raised
IntOf(value) ==
    CASE value.t \in {"bool", "int"} -> JInt(value.n)
      [] value.t = "float" ->
            IF value.s = "nan" THEN JRaise("ValueError")
            ELSE IF value.s = "inf" THEN JRaise("OverflowError")
            ELSE JInt(IF value.n >= 0 THEN value.n \div 100 ELSE -((-value.n) \div 100))
      [] value.t = "str" ->
            IF ParseInt(value.s) = <<>> THEN JRaise("ValueError")
            ELSE JInt(ParseInt(value.s)[1])
      [] OTHER -> JRaise("TypeError")

\* float(value): the float, or the exception raised
FloatOf(value) ==
    CASE value.t \in {"bool", "int"} -> JFloat(value.n * 100)
      [] value.t = "float" -> value
      [] value.t = "str" ->
            IF ParseFloat(value.s) = JNone THEN JRaise("ValueError")
            ELSE ParseFloat(value.s)
      [] OTHER -> JRaise("TypeError")

\* a < b on floats: false when either is nan
FloatLt(a, b) == a.s # "nan" /\ b.s # "nan" /\ a.n < b.n

\* bool(value)
Truthy(value) ==
    CASE value.t = "none" -> FALSE
      [] value.t \in {"bool", "int"} -> value.n # 0
      [] value.t = "float" -> value.s = "nan" \/ value.n # 0
      [] value.t = "str" -> value.s # ""
      [] value.t = "list" -> Len(value.items) > 0
      [] OTHER -> DOMAIN value.d # {}

\* ------------------------------------------ coercers (__init__.py 70-124)
coerce_bool(value, default) ==
    LET lowered == LowerWord(Strip(value.s))
    IN IF value.t = "bool" THEN value
       ELSE IF value.t = "str" /\ lowered \in {"1", "true", "yes", "on"} THEN JBool(TRUE)
       ELSE IF value.t = "str" /\ lowered \in {"0", "false", "no", "off"} THEN JBool(FALSE)
       ELSE default

\* except (TypeError, ValueError): any other exception leaves the function
coerce_int(value, default, minimum) ==
    LET coerced == IntOf(value)
    IN IF Raised(coerced)
       THEN (IF coerced.s \in {"TypeError", "ValueError"} THEN default ELSE coerced)
       ELSE IF coerced.n >= minimum THEN coerced ELSE default

\* a coercer that never takes the given value
coerce_float_default(value, default, minimum, maximum) == default

\* minimum and maximum are <<>> for None and <<n>> (hundredths) otherwise
coerce_float(value, default, minimum, maximum) ==
    LET coerced == FloatOf(value)
    IN IF Raised(coerced) THEN default
       ELSE IF minimum # <<>> /\ FloatLt(coerced, JFloat(minimum[1])) THEN default
       ELSE IF maximum # <<>> /\ FloatLt(JFloat(maximum[1]), coerced) THEN default
       ELSE coerced

coerce_tier(value, default) ==
    IF value.t = "none" THEN default
    ELSE IF value.t = "str" /\ Upper(value.s) \in DOMAIN TIER_RANK THEN JStr(Upper(value.s))
    ELSE default

RECURSIVE StrippedStrings(_)
StrippedStrings(items) ==
    IF Len(items) = 0 THEN <<>>
    ELSE LET item == Head(items)
         IN (IF item.t = "str" /\ Strip(item.s) # "" THEN <<JStr(Strip(item.s))>> ELSE <<>>)
                \o StrippedStrings(Tail(items))

\* a sanitizer that merges the given list with the default list
sanitize_string_list_merging(value, default) ==
    IF value.t # "list" THEN default
    ELSE JList(StrippedStrings(value.items) \o default.items)

sanitize_string_list(value, default) ==
    IF value.t # "list" THEN default
    ELSE IF Len(StrippedStrings(value.items)) > 0 THEN JList(StrippedStrings(value.items))
    ELSE default

\* {str(k): bool(v)}: the keys of the configurations below are strings
sanitize_capabilities(value, default) ==
    IF value.t # "dict" THEN default
    ELSE JDict([k \in DOMAIN value.d |-> JBool(Truthy(value.d[k]))])

\* ======================================== the default configuration as values
Strs(seq) == JList([k \in 1..Len(seq) |-> JStr(seq[k])])
EmptyDict == JDict(<<>>)

\* the native records of the defaults above as configuration values
JOverrides(o) ==
    JDict([maxTokensForceComplex |-> JInt(o.maxTokensForceComplex),
           structuredOutputMinTier |-> JStr(o.structuredOutputMinTier),
           ambiguousDefaultTier |-> JStr(o.ambiguousDefaultTier),
           agenticMode |-> JBool(o.agenticMode)])
JPreferences(p) ==
    JDict([t \in DOMAIN p |->
        JDict([preferred_models |-> Strs(p[t].preferred_models),
               capabilities |-> JDict([c \in DOMAIN p[t].capabilities |->
                                            JBool(p[t].capabilities[c])])])])

keyword_lists ==
    <<"codeKeywords", "reasoningKeywords", "simpleKeywords", "technicalKeywords",
      "creativeKeywords", "imperativeVerbs", "constraintIndicators",
      "outputFormatKeywords", "referenceKeywords", "negationKeywords",
      "domainSpecificKeywords", "agenticTaskKeywords">>
KeywordListNames == {keyword_lists[k] : k \in 1..Len(keyword_lists)}

\* config.py 13-165.  Of every keyword list the ASCII entries are kept, in
\* their order; the entries in other scripts occur in no text of this module,
\* nor does the code fence (three backticks) of codeKeywords.
DEFAULT_SCORING_CONFIG ==
    JDict([
        tokenCountThresholds |-> JDict([simple |-> JInt(50), complex |-> JInt(500)]),
        codeKeywords |-> Strs(<<
            "function", "class", "import", "def", "select", "async", "await",
            "const", "let", "var", "return", "funktion", "klasse",
            "importieren", "definieren", "abfrage", "asynchron", "erwarten",
            "konstante", "variable">>),
        reasoningKeywords |-> Strs(<<
            "prove", "theorem", "derive", "step by step", "chain of thought",
            "formally", "mathematical", "proof", "logically", "beweisen",
            "beweis", "theorem", "ableiten", "gedankenkette", "formal",
            "mathematisch", "logisch">>),
        simpleKeywords |-> Strs(<<
            "what is", "define", "translate", "hello", "yes or no", "capital of",
            "how old", "who is", "when was", "was ist", "definiere", "hallo",
            "ja oder nein", "hauptstadt", "wie alt", "wer ist", "wann">>),
        technicalKeywords |-> Strs(<<
            "algorithm", "optimize", "architecture", "distributed", "kubernetes",
            "microservice", "database", "infrastructure", "algorithmus",
            "optimieren", "architektur", "verteilt", "kubernetes",
            "mikroservice", "datenbank", "infrastruktur">>),
        creativeKeywords |-> Strs(<<
            "story", "poem", "compose", "brainstorm", "creative", "imagine",
            "write a", "geschichte", "gedicht", "komponieren", "brainstorming",
            "kreativ", "vorstellen", "schreibe">>),
        imperativeVerbs |-> Strs(<<
            "build", "create", "implement", "design", "develop", "construct",
            "generate", "deploy", "configure", "set up", "erstellen", "bauen",
            "implementieren", "entwerfen", "entwickeln", "konstruieren",
            "generieren", "bereitstellen", "konfigurieren", "einrichten">>),
        constraintIndicators |-> Strs(<<
            "under", "at most", "at least", "within", "no more than", "o(",
            "maximum", "minimum", "limit", "budget", "mindestens", "innerhalb",
            "nicht mehr als", "maximal", "minimal", "grenze", "budget">>),
        outputFormatKeywords |-> Strs(<<
            "json", "yaml", "xml", "table", "csv", "markdown", "schema",
            "format as", "structured", "tabelle", "formatieren als",
            "strukturiert">>),
        referenceKeywords |-> Strs(<<
            "above", "below", "previous", "following", "the docs", "the api",
            "the code", "earlier", "attached", "oben", "unten", "vorherige",
            "folgende", "dokumentation", "der code", "anhang">>),
        negationKeywords |-> Strs(<<
            "don't", "do not", "avoid", "never", "without", "except", "exclude",
            "no longer", "nicht", "vermeide", "niemals", "ohne", "nicht mehr">>),
        domainSpecificKeywords |-> Strs(<<
            "quantum", "fpga", "vlsi", "risc-v", "asic", "photonics", "genomics",
            "proteomics", "topological", "homomorphic", "zero-knowledge",
            "lattice-based", "quanten", "photonik", "genomik", "proteomik",
            "topologisch", "homomorph", "zero-knowledge", "gitterbasiert">>),
        agenticTaskKeywords |-> Strs(<<
            "read file", "read the file", "look at", "check the", "open the",
            "edit", "modify", "update the", "change the", "write to",
            "create file", "execute", "deploy", "install", "npm", "pip",
            "compile", "after that", "and also", "once done", "step 1", "step 2",
            "fix", "debug", "until it works", "keep trying", "iterate",
            "make sure", "verify", "confirm">>),
        dimensionWeights |-> JDict([
            tokenCount |-> JFloat(8), codePresence |-> JFloat(15), reasoningMarkers
            |-> JFloat(18), technicalTerms |-> JFloat(10), creativeMarkers |->
            JFloat(5), simpleIndicators |-> JFloat(2), multiStepPatterns |->
            JFloat(12), questionComplexity |-> JFloat(5), imperativeVerbs |->
            JFloat(3), constraintCount |-> JFloat(4), outputFormat |-> JFloat(3),
            referenceComplexity |-> JFloat(2), negationComplexity |-> JFloat(1),
            domainSpecificity |-> JFloat(2), agenticTask |-> JFloat(4)]),
        tierBoundaries |-> JDict([simpleMedium |-> JFloat(0), mediumComplex |-> JFloat(18),
                                  complexReasoning |-> JFloat(40)]),
        confidenceSteepness |-> JInt(12),
        confidenceThreshold |-> JFloat(70)])

\* config.py 241-249
DEFAULT_CONFIG ==
    JDict([scoring |-> DEFAULT_SCORING_CONFIG,
           overrides |-> JOverrides(DEFAULT_OVERRIDES),
           tierPreferences |-> JPreferences(DEFAULT_TIER_PREFERENCES),
           agenticPreferences |-> JPreferences(DEFAULT_AGENTIC_PREFERENCES)])

\* ------------------------------------ normalize_config (__init__.py 54-254)
RECURSIVE deep_merge(_, _)
deep_merge(base, override) ==
    IF ~IsDict(base) THEN override
    ELSE IF ~IsDict(override) THEN base
    ELSE JDict([key \in DOMAIN base.d \cup DOMAIN override.d |->
            IF key \notin DOMAIN override.d THEN base.d[key]
            ELSE IF /\ key \in DOMAIN base.d
                    /\ IsDict(base.d[key]) /\ IsDict(override.d[key])
                 THEN deep_merge(base.d[key], override.d[key])
                 ELSE override.d[key]])

\* if x < y: x = y, on the coerced boundaries
raise_to(value, predecessor) == IF FloatLt(value, predecessor) THEN predecessor ELSE value

\* .get() on a value that is not a dict raises AttributeError
normalize_scoring(scoring) ==
    LET D == DEFAULT_SCORING_CONFIG.d
        merged == deep_merge(DEFAULT_SCORING_CONFIG,
                             IF IsDict(scoring) THEN scoring ELSE EmptyDict)
        thresholds == merged.d.tokenCountThresholds
        simple == coerce_int(DictGet(thresholds, "simple"),
                             D.tokenCountThresholds.d.simple, 1)
        complex == coerce_int(DictGet(thresholds, "complex"),
                              D.tokenCountThresholds.d.complex, 1)
        weights == merged.d.dimensionWeights
        normalized_weights ==
            [key \in DOMAIN D.dimensionWeights.d |->
                coerce_float(DictGet(weights, key), D.dimensionWeights.d[key],
                             <<-200>>, <<200>>)]
        boundaries == merged.d.tierBoundaries
        simple_medium == coerce_float(DictGet(boundaries, "simpleMedium"),
                                      D.tierBoundaries.d.simpleMedium, <<>>, <<>>)
        medium_complex == raise_to(
            coerce_float(DictGet(boundaries, "mediumComplex"),
                         D.tierBoundaries.d.mediumComplex, <<>>, <<>>),
            simple_medium)
        complex_reasoning == raise_to(
            coerce_float(DictGet(boundaries, "complexReasoning"),
                         D.tierBoundaries.d.complexReasoning, <<>>, <<>>),
            medium_complex)
    IN IF ~IsDict(thresholds) THEN JRaise("AttributeError")
       ELSE IF Raised(simple) THEN simple
       ELSE IF Raised(complex) THEN complex
       ELSE IF ~IsDict(weights) THEN JRaise("AttributeError")
       ELSE IF ~IsDict(boundaries) THEN JRaise("AttributeError")
       ELSE JDict([key \in DOMAIN merged.d |->
            CASE key = "tokenCountThresholds" ->
                    JDict([simple |-> simple,
                           complex |-> IF complex.n < simple.n THEN simple ELSE complex])
              [] key \in KeywordListNames ->
                    sanitize_string_list(merged.d[key], D[key])
              [] key = "dimensionWeights" -> JDict(normalized_weights)
              [] key = "tierBoundaries" ->
                    JDict([simpleMedium |-> simple_medium,
                           mediumComplex |-> medium_complex,
                           complexReasoning |-> complex_reasoning])
              [] key = "confidenceSteepness" ->
                    coerce_float(merged.d[key], D[key], <<10>>, <<10000>>)
              [] key = "confidenceThreshold" ->
                    coerce_float(merged.d[key], D[key], <<0>>, <<100>>)
              [] OTHER -> merged.d[key]])

normalize_preferences(prefs, defaults) ==
    LET source == IF IsDict(prefs) THEN prefs ELSE EmptyDict
    IN JDict([tier \in TierSet |->
        LET default_entry == defaults.d[tier]
            got == IF tier \in DOMAIN source.d THEN source.d[tier] ELSE EmptyDict
            raw_entry == IF IsDict(got) THEN got ELSE EmptyDict
        IN JDict([preferred_models |->
                    sanitize_string_list(DictGet(raw_entry, "preferred_models"),
                                         default_entry.d.preferred_models),
                  capabilities |->
                    sanitize_capabilities(DictGet(raw_entry, "capabilities"),
                                          default_entry.d.capabilities)])])

normalize_overrides(overrides) ==
    LET D == JOverrides(DEFAULT_OVERRIDES)
        merged == deep_merge(D, IF IsDict(overrides) THEN overrides ELSE EmptyDict)
        max_tokens == coerce_int(merged.d.maxTokensForceComplex,
                                 D.d.maxTokensForceComplex, 1)
    IN IF Raised(max_tokens) THEN max_tokens
       ELSE JDict([maxTokensForceComplex |-> max_tokens,
                   structuredOutputMinTier |->
                        coerce_tier(merged.d.structuredOutputMinTier,
                                    D.d.structuredOutputMinTier),
                   ambiguousDefaultTier |->
                        coerce_tier(merged.d.ambiguousDefaultTier,
                                    D.d.ambiguousDefaultTier),
                   agenticMode |-> coerce_bool(merged.d.agenticMode, D.d.agenticMode)])

\* the value returned, or the exception that leaves normalize_config
normalize_config(raw_config) ==
    LET merged == deep_merge(DEFAULT_CONFIG,
                             IF IsDict(raw_config) THEN raw_config ELSE EmptyDict)
        scoring == normalize_scoring(merged.d.scoring)
        overrides == normalize_overrides(merged.d.overrides)
    IN IF Raised(scoring) THEN scoring
       ELSE IF Raised(overrides) THEN overrides
       ELSE JDict([scoring |-> scoring,
                   overrides |-> overrides,
                   tierPreferences |->
                        normalize_preferences(merged.d.tierPreferences,
                                              JPreferences(DEFAULT_TIER_PREFERENCES)),
                   agenticPreferences |->
                        normalize_preferences(merged.d.agenticPreferences,
                                              JPreferences(DEFAULT_AGENTIC_PREFERENCES))])

\* ------------------------------------------------- normalize_config alone
MaxOverrides == 2

\* an override of one key of the raw configuration: the path of keys and the
\* value given there
Override(path, value) == [path |-> path, value |-> value]

ScoringOverrides ==
    {Override(<<"scoring">>, JInt(5)),
     Override(<<"scoring", "extra">>, JDict([a |-> JInt(1)])),
     Override(<<"scoring", "tokenCountThresholds">>, JInt(5)),
     Override(<<"scoring", "tokenCountThresholds", "simple">>, JInt(900)),
     Override(<<"scoring", "tokenCountThresholds", "simple">>, JStr("x")),
     Override(<<"scoring", "tokenCountThresholds", "simple">>, JFloat(270)),
     Override(<<"scoring", "tokenCountThresholds", "simple">>, JInf),
     Override(<<"scoring", "tokenCountThresholds", "complex">>, JInt(7)),
     Override(<<"scoring", "tokenCountThresholds", "complex">>, JStr("12")),
     Override(<<"scoring", "dimensionWeights">>, JNone),
     Override(<<"scoring", "dimensionWeights", "reasoningMarkers">>, JFloat(25)),
     Override(<<"scoring", "dimensionWeights", "reasoningMarkers">>, JFloat(300)),
     Override(<<"scoring", "dimensionWeights", "codePresence">>, JBool(TRUE)),
     Override(<<"scoring", "dimensionWeights", "agenticTask">>, JInt(2)),
     Override(<<"scoring", "dimensionWeights", "bogus">>, JFloat(10)),
     Override(<<"scoring", "tierBoundaries">>, JList(<<>>)),
     Override(<<"scoring", "tierBoundaries", "simpleMedium">>, JFloat(50)),
     Override(<<"scoring", "tierBoundaries", "simpleMedium">>, JStr("nan")),
     Override(<<"scoring", "tierBoundaries", "mediumComplex">>, JFloat(-10)),
     Override(<<"scoring", "tierBoundaries", "complexReasoning">>, JFloat(10)),
     Override(<<"scoring", "confidenceSteepness">>, JInt(0)),
     Override(<<"scoring", "confidenceSteepness">>, JFloat(100)),
     Override(<<"scoring", "confidenceThreshold">>, JFloat(150)),
     Override(<<"scoring", "codeKeywords">>, Strs(<<" x ">>)),
     Override(<<"scoring", "codeKeywords">>, JList(<<JStr(" "), JInt(5)>>))}

OverridesOverrides ==
    {Override(<<"overrides">>, JInt(5)),
     Override(<<"overrides", "maxTokensForceComplex">>, JStr("12")),
     Override(<<"overrides", "maxTokensForceComplex">>, JInf),
     Override(<<"overrides", "structuredOutputMinTier">>, JStr("complex")),
     Override(<<"overrides", "structuredOutputMinTier">>, JInt(7)),
     Override(<<"overrides", "ambiguousDefaultTier">>, JStr("simple")),
     Override(<<"overrides", "agenticMode">>, JStr("Yes")),
     Override(<<"overrides", "agenticMode">>, JInt(1))}

PreferenceOverrides ==
    {Override(<<"tierPreferences">>, JInt(5)),
     Override(<<"tierPreferences", "SIMPLE", "preferred_models">>, Strs(<<" a ", "">>)),
     Override(<<"tierPreferences", "SIMPLE", "preferred_models">>, Strs(<<" ">>)),
     Override(<<"tierPreferences", "REASONING", "capabilities">>, JInt(5)),
     Override(<<"tierPreferences", "REASONING", "capabilities">>,
              JDict([reasoning |-> JInt(0), vision |-> JStr("x")])),
     Override(<<"agenticPreferences", "MEDIUM">>,
              JDict([preferred_models |-> Strs(<<"fast">>), capabilities |-> JNone])),
     Override(<<"other">>, JInt(3))}

OverridePool == ScoringOverrides \cup OverridesOverrides \cup PreferenceOverrides

IsPrefix(p, q) == Len(p) <= Len(q) /\ SubSeq(q, 1, Len(p)) = p

\* the sets of at most MaxOverrides overrides that do not write over each other
OverrideSets ==
    {S \in {{}} \cup {{f[k] : k \in 1..MaxOverrides} : f \in [1..MaxOverrides -> OverridePool]} :
        \A a, b \in S : a # b => ~IsPrefix(a.path, b.path)}

RECURSIVE SetPath(_, _, _)
SetPath(v, path, value) ==
    IF Len(path) = 0 THEN value
    ELSE LET key == Head(path)
             child == IF key \in DOMAIN v.d THEN v.d[key] ELSE EmptyDict
         IN JDict([k \in DOMAIN v.d \cup {key} |->
                IF k = key THEN SetPath(child, Tail(path), value) ELSE v.d[k]])

RECURSIVE BuildRaw(_)
BuildRaw(S) ==
    IF S = {} THEN EmptyDict
    ELSE LET o == CHOOSE x \in S : TRUE
         IN SetPath(BuildRaw(S \ {o}), o.path, o.value)

\* the raw configurations handed to normalize_config
RawConfigs == {BuildRaw(S) : S \in OverrideSets} \cup {JNone, JInt(5)}

NormInit ==
    /\ nz \in [phase : {"input"}, raw : RawConfigs, once : {JNone}, twice : {JNone}]
    /\ providers = EmptyCatalog /\ config = default_config
    /\ context = [c \in Contexts |-> EmptyContext]
    /\ g_stats = ZeroStats
    /\ req = [r \in Requests |-> IdleRequest]
    /\ calls = [r \in Requests |-> <<>>]
    /\ rk = Nil /\ cl = Nil /\ ta = Nil

\* normalize_config(raw)
NormalizeCall ==
    /\ nz.phase = "input"
    /\ nz' = [nz EXCEPT !.phase = "once", !.once = normalize_config(nz.raw)]
    /\ UNCHANGED <<providers, config, context, g_stats, req, calls, rk, cl, ta>>

\* normalize_config on the configuration the first call returned
NormalizeAgain ==
    /\ nz.phase = "once"
    /\ ~Raised(nz.once)
    /\ nz' = [nz EXCEPT !.phase = "twice", !.twice = normalize_config(nz.once)]
    /\ UNCHANGED <<providers, config, context, g_stats, req, calls, rk, cl, ta>>

NormNext == NormalizeCall \/ NormalizeAgain

NormSpec == NormInit /\ [][NormNext]_vars

\* ================================================ claims: normalize_config
NormCalled == nz.phase # "input"
NormReturned == NormCalled /\ ~Raised(nz.once)

IsNumber(v) == v.t \in {"bool", "int", "float"}
\* the number in hundredths
NumberOf(v) == IF v.t = "float" THEN v.n ELSE v.n * 100

\* Python's == on configuration values: numbers compare by value
RECURSIVE PyEq(_, _)
PyEq(a, b) ==
    IF IsNumber(a) /\ IsNumber(b)
    THEN a.s # "nan" /\ b.s # "nan" /\ NumberOf(a) = NumberOf(b)
    ELSE IF a.t = "dict" /\ b.t = "dict"
    THEN DOMAIN a.d = DOMAIN b.d /\ \A k \in DOMAIN a.d : PyEq(a.d[k], b.d[k])
    ELSE IF a.t = "list" /\ b.t = "list"
    THEN Len(a.items) = Len(b.items)
            /\ \A k \in 1..Len(a.items) : PyEq(a.items[k], b.items[k])
    ELSE a = b

IsStringList(v) ==
    /\ v.t = "list" /\ Len(v.items) > 0
    /\ \A k \in 1..Len(v.items) : v.items[k].t = "str" /\ v.items[k].s # ""

IsPreferenceTable(v) ==
    /\ IsDict(v) /\ DOMAIN v.d = TierSet
    /\ \A t \in TierSet :
          /\ IsDict(v.d[t]) /\ DOMAIN v.d[t].d = {"preferred_models", "capabilities"}
          /\ IsStringList(v.d[t].d.preferred_models)
          /\ IsDict(v.d[t].d.capabilities)
          /\ \A c \in DOMAIN v.d[t].d.capabilities.d : v.d[t].d.capabilities.d[c].t = "bool"

\* every key of the defaults is there and holds a value of its type
FullyPopulated(c) ==
    /\ IsDict(c) /\ DOMAIN c.d = DOMAIN DEFAULT_CONFIG.d
    /\ IsDict(c.d.scoring)
    /\ DOMAIN DEFAULT_SCORING_CONFIG.d \subseteq DOMAIN c.d.scoring.d
    /\ LET s == c.d.scoring.d
       IN /\ IsDict(s.tokenCountThresholds)
          /\ DOMAIN s.tokenCountThresholds.d = {"simple", "complex"}
          /\ \A k \in {"simple", "complex"} :
                s.tokenCountThresholds.d[k].t = "int" /\ s.tokenCountThresholds.d[k].n >= 1
          /\ \A name \in KeywordListNames : IsStringList(s[name])
          /\ IsDict(s.dimensionWeights)
          /\ DOMAIN s.dimensionWeights.d = DOMAIN DEFAULT_SCORING_CONFIG.d.dimensionWeights.d
          /\ \A k \in DOMAIN s.dimensionWeights.d : IsNumber(s.dimensionWeights.d[k])
          /\ IsDict(s.tierBoundaries)
          /\ DOMAIN s.tierBoundaries.d = {"simpleMedium", "mediumComplex", "complexReasoning"}
          /\ \A k \in DOMAIN s.tierBoundaries.d : IsNumber(s.tierBoundaries.d[k])
          /\ IsNumber(s.confidenceSteepness) /\ IsNumber(s.confidenceThreshold)
    /\ IsDict(c.d.overrides)
    /\ LET o == c.d.overrides.d
       IN /\ DOMAIN o = DOMAIN JOverrides(DEFAULT_OVERRIDES).d
          /\ o.maxTokensForceComplex.t = "int" /\ o.maxTokensForceComplex.n >= 1
          /\ o.structuredOutputMinTier.t = "str" /\ o.structuredOutputMinTier.s \in TierSet
          /\ o.ambiguousDefaultTier.t = "str" /\ o.ambiguousDefaultTier.s \in TierSet
          /\ o.agenticMode.t = "bool"
    /\ IsPreferenceTable(c.d.tierPreferences)
    /\ IsPreferenceTable(c.d.agenticPreferences)

\* C12: normalize_config returns for every raw configuration, and what it
\* returns is a fully populated configuration.
C12_NeverFails ==
    NormCalled => ~Raised(nz.once) /\ FullyPopulated(nz.once)

\* whenever normalize_config does return, the configuration is fully populated
ReturnedIsPopulated == NormReturned => FullyPopulated(nz.once)

Boundary(name) == nz.once.d.scoring.d.tierBoundaries.d[name]
Threshold(name) == nz.once.d.scoring.d.tokenCountThresholds.d[name]
\* a <= b on floats: false when either is nan
FloatLe(a, b) == a.s # "nan" /\ b.s # "nan" /\ a.n <= b.n

\* C13: in every configuration normalize_config returns, the tier boundaries
\* satisfy simpleMedium <= mediumComplex <= complexReasoning and the token
\* thresholds satisfy complex >= simple.
C13_BoundariesOrdered ==
    NormReturned =>
        /\ FloatLe(Boundary("simpleMedium"), Boundary("mediumComplex"))
        /\ FloatLe(Boundary("mediumComplex"), Boundary("complexReasoning"))
        /\ Threshold("complex").n >= Threshold("simple").n

\* the same for the configurations none of whose boundaries is nan
OrderedUnlessNaN ==
    NormReturned /\ (\A k \in {"simpleMedium", "mediumComplex", "complexReasoning"} :
                        Boundary(k).s # "nan")
        => C13_BoundariesOrdered

\* == between the configuration a second call returns and the one it was given:
\* numbers compare by value, and a nan compares equal to itself because the
\* second call hands back the very object (== on containers holds for
\* identical elements)
RECURSIVE SameConfig(_, _)
SameConfig(a, b) ==
    IF IsNumber(a) /\ IsNumber(b)
    THEN IF a.s = "nan" \/ b.s = "nan" THEN a = b ELSE NumberOf(a) = NumberOf(b)
    ELSE IF a.t = "dict" /\ b.t = "dict"
    THEN DOMAIN a.d = DOMAIN b.d /\ \A k \in DOMAIN a.d : SameConfig(a.d[k], b.d[k])
    ELSE IF a.t = "list" /\ b.t = "list"
    THEN Len(a.items) = Len(b.items)
            /\ \A k \in 1..Len(a.items) : SameConfig(a.items[k], b.items[k])
    ELSE a = b

\* C14: normalize_config applied to a configuration that normalize_config
\* returned returns, and returns a configuration equal to the one it was given.
C14_Idempotent ==
    nz.phase = "twice" => ~Raised(nz.twice) /\ SameConfig(nz.twice, nz.once)

\* a second call on a configuration in which the first call stripped a model
\* name and raised the complex threshold to the simple one
C14_Witness ==
    /\ nz.phase = "twice"
    /\ nz.once.d.tierPreferences.d.SIMPLE.d.preferred_models = Strs(<<"a">>)
    /\ Threshold("simple") = JInt(900) /\ Threshold("complex") = JInt(900)
    /\ ~PyEq(nz.once, nz.raw)

\* the overrides of one dimension weight by a number within [-2, 2]
InRangeWeightOverrides ==
    {o \in OverridePool :
        /\ Len(o.path) = 3 /\ o.path[1] = "scoring" /\ o.path[2] = "dimensionWeights"
        /\ o.path[3] \in DOMAIN DEFAULT_SCORING_CONFIG.d.dimensionWeights.d
        /\ IsNumber(o.value) /\ o.value.s = ""
        /\ NumberOf(o.value) >= -200 /\ NumberOf(o.value) <= 200}

\* C15: when the raw configuration sets one dimension weight to a number in
\* range and nothing else, normalize_config returns a configuration in which
\* that weight equals the given number and everything else equals the
\* built-in defaults: with the weight put back it equals the default
\* configuration.
C15_PartialOverride ==
    NormCalled =>
        \A o \in InRangeWeightOverrides :
            nz.raw = BuildRaw({o}) =>
                /\ ~Raised(nz.once)
                /\ PyEq(nz.once.d.scoring.d.dimensionWeights.d[o.path[3]], o.value)
                /\ PyEq(SetPath(nz.once, o.path,
                                DEFAULT_SCORING_CONFIG.d.dimensionWeights.d[o.path[3]]),
                        DEFAULT_CONFIG)

\* normalize_config was called on {scoring: {dimensionWeights: {reasoningMarkers: 0.25}}}
C15_Witness ==
    /\ NormCalled
    /\ nz.raw = JDict([scoring |-> JDict([dimensionWeights |->
                    JDict([reasoningMarkers |-> JFloat(25)])])])
    /\ nz.once.d.scoring.d.dimensionWeights.d.reasoningMarkers = JFloat(25)
    /\ nz.once.d.scoring.d.dimensionWeights.d.codePresence = JFloat(15)
    /\ Cardinality(InRangeWeightOverrides) >= 3

\* ======================================================= scorer.classify
\* A text is the sequence of the phrases it is made of, joined by single
\* spaces; the phrases are chosen so that no keyword and no multi-step
\* pattern matches across the space between two of them.
PromptPhrases ==
    {"Prove", "the theorem", "step by step", "formally", "What is Python?",
     "read file, edit", "deploy and fix step 1", "debug"}
SystemPhrases == {"the theorem", "formally", "Return json", "Use a SCHEMA"}

\* str.lower()
TextLower(phrase) ==
    CASE phrase = "Prove" -> "prove"
      [] phrase = "What is Python?" -> "what is python?"
      [] phrase = "Return json" -> "return json"
      [] phrase = "Use a SCHEMA" -> "use a schema"
      [] OTHER -> phrase

\* the lower-cased keywords of the lists below that are substrings of a
\* lower-cased phrase
KeywordsIn(phrase) ==
    CASE phrase = "prove" -> {"prove"}
      [] phrase = "the theorem" -> {"theorem"}
      [] phrase = "step by step" -> {"step by step"}
      [] phrase = "formally" -> {"formal", "formally"}
      [] phrase = "what is python?" -> {"what is"}
      [] phrase = "read file, edit" -> {"read file", "edit"}
      [] phrase = "deploy and fix step 1" -> {"deploy", "fix", "step 1"}
      [] phrase = "debug" -> {"debug"}
      [] phrase = "return json" -> {"return", "json"}
      [] phrase = "use a schema" -> {"schema"}
      [] OTHER -> {}

\* str.count("?")
QuestionMarks(phrase) == IF phrase = "What is Python?" THEN 1 ELSE 0

\* re.search of first.*then, step \d or \d\.\s in a lower-cased phrase
MultiStepIn(phrase) == phrase = "deploy and fix step 1"

\* text.lower()
LowerText(text) == [i \in 1..Len(text) |-> TextLower(text[i])]

\* kw.lower() on the keywords of the lists below
KeywordLower(kw) == IF kw = "PROVE" THEN "prove" ELSE kw

\* kw.lower() in text
Occurs(kw, text) == \E i \in 1..Len(text) : KeywordLower(kw) \in KeywordsIn(text[i])

\* [kw for kw in keywords if kw.lower() in text], as the positions in the list
Matches(keywords, text) ==
    {i \in 1..Len(keywords.items) : Occurs(keywords.items[i].s, text)}

\* scorer.py 25-32; scores in tenths
score_token_count(estimated_tokens, thresholds) ==
    LET simple_threshold == IntOf(IF "simple" \in DOMAIN thresholds.d
                                  THEN thresholds.d.simple ELSE JInt(50)).n
        complex_threshold == IntOf(IF "complex" \in DOMAIN thresholds.d
                                   THEN thresholds.d.complex ELSE JInt(500)).n
    IN IF estimated_tokens < simple_threshold THEN -10
       ELSE IF estimated_tokens > complex_threshold THEN 10
       ELSE 0

\* scorer.py 35-48
score_keyword_match(text, keywords, thresholds, scores) ==
    LET matches == Cardinality(Matches(keywords, text))
    IN IF matches >= thresholds.high THEN scores.high
       ELSE IF matches >= thresholds.low THEN scores.low
       ELSE scores.none

\* scorer.py 51-56
score_multi_step(text) == IF \E i \in 1..Len(text) : MultiStepIn(text[i]) THEN 5 ELSE 0

\* scorer.py 59-63
score_question_complexity(prompt) ==
    IF SumOver([i \in 1..Len(prompt) |-> QuestionMarks(prompt[i])], 1..Len(prompt)) > 3
    THEN 5 ELSE 0

\* scorer.py 66-81; the agentic score in hundredths
score_agentic_task(text, keywords) ==
    LET match_count == Cardinality(Matches(keywords, text))
    IN IF match_count >= 4 THEN 100
       ELSE IF match_count >= 3 THEN 60
       ELSE IF match_count >= 1 THEN 20
       ELSE 0

\* 1 / (1 + exp(-x)) in units of 1e-7 at x = 0, 0.05, 0.10, ..., 16
SigmoidTable ==
    <<
      5000000, 5124974, 5249792, 5374298, 5498340, 5621765, 5744425, 5866176,
      5986877, 6106392, 6224593, 6341356, 6456563, 6570105, 6681878, 6791787,
      6899745, 7005671, 7109495, 7211152, 7310586, 7407749, 7502601, 7595109,
      7685248, 7772999, 7858350, 7941296, 8021839, 8099984, 8175745, 8249137,
      8320184, 8388911, 8455347, 8519528, 8581489, 8641271, 8698915, 8754466,
      8807971, 8859476, 8909032, 8956688, 9002495, 9046505, 9088770, 9129342,
      9168273, 9205615, 9241418, 9275735, 9308616, 9340110, 9370266, 9399133,
      9426758, 9453187, 9478464, 9502635, 9525741, 9547825, 9568927, 9589087,
      9608343, 9626731, 9644288, 9661048, 9677045, 9692311, 9706878, 9720774,
      9734030, 9746673, 9758730, 9770226, 9781187, 9791637, 9801597, 9811090,
      9820138, 9828760, 9836975, 9844802, 9852260, 9859364, 9866131, 9872577,
      9878716, 9884562, 9890131, 9895433, 9900482, 9905290, 9909867, 9914225,
      9918374, 9922324, 9926085, 9929664, 9933071, 9936315, 9939402, 9942340,
      9945137, 9947799, 9950332, 9952743, 9955037, 9957221, 9959299, 9961276,
      9963158, 9964948, 9966652, 9968273, 9969816, 9971284, 9972680, 9974009,
      9975274, 9976477, 9977622, 9978711, 9979747, 9980733, 9981671, 9982563,
      9983412, 9984220, 9984988, 9985719, 9986415, 9987077, 9987706, 9988305,
      9988875, 9989417, 9989932, 9990423, 9990889, 9991333, 9991756, 9992158,
      9992540, 9992903, 9993249, 9993578, 9993891, 9994189, 9994472, 9994742,
      9994998, 9995242, 9995474, 9995694, 9995904, 9996104, 9996294, 9996475,
      9996646, 9996810, 9996966, 9997113, 9997254, 9997388, 9997515, 9997637,
      9997752, 9997861, 9997966, 9998065, 9998159, 9998249, 9998334, 9998416,
      9998493, 9998566, 9998636, 9998703, 9998766, 9998826, 9998883, 9998938,
      9998990, 9999039, 9999086, 9999130, 9999173, 9999213, 9999252, 9999288,
      9999323, 9999356, 9999387, 9999417, 9999446, 9999473, 9999498, 9999523,
      9999546, 9999568, 9999589, 9999609, 9999628, 9999646, 9999664, 9999680,
      9999696, 9999711, 9999725, 9999738, 9999751, 9999763, 9999775, 9999786,
      9999796, 9999806, 9999815, 9999824, 9999833, 9999841, 9999849, 9999856,
      9999863, 9999870, 9999876, 9999882, 9999888, 9999894, 9999899, 9999904,
      9999908, 9999913, 9999917, 9999921, 9999925, 9999929, 9999932, 9999935,
      9999939, 9999942, 9999944, 9999947, 9999950, 9999952, 9999954, 9999957,
      9999959, 9999961, 9999963, 9999965, 9999966, 9999968, 9999969, 9999971,
      9999972, 9999974, 9999975, 9999976, 9999977, 9999978, 9999980, 9999981,
      9999981, 9999982, 9999983, 9999984, 9999985, 9999986, 9999986, 9999987,
      9999988, 9999988, 9999989, 9999989, 9999990, 9999990, 9999991, 9999991,
      9999992, 9999992, 9999992, 9999993, 9999993, 9999994, 9999994, 9999994,
      9999994, 9999995, 9999995, 9999995, 9999995, 9999996, 9999996, 9999996,
      9999996, 9999996, 9999997, 9999997, 9999997, 9999997, 9999997, 9999997,
      9999997, 9999998, 9999998, 9999998, 9999998, 9999998, 9999998, 9999998,
      9999998, 9999998, 9999998, 9999999, 9999999, 9999999, 9999999, 9999999,
      9999999
    >>
SigmoidStep == 5000

\* x in units of 1e-5; between two entries of the table the value is
\* interpolated linearly (error below 4e-5)
Sigmoid(x) ==
    LET last == Len(SigmoidTable)
        i == x \div SigmoidStep
        r == x % SigmoidStep
    IN IF i + 2 > last THEN SigmoidTable[last]
       ELSE SigmoidTable[i + 1]
            + ((SigmoidTable[i + 2] - SigmoidTable[i + 1]) * r) \div SigmoidStep

\* A float of the classifier is an integer in the unit named where it is
\* computed, or NaN; a comparison with nan is false, and max and min return
\* their first argument unless the second compares greater or smaller.
NaN == -1000000000
FloatNum(v) == IF v.s = "nan" THEN NaN ELSE v.n
Less(a, b) == a # NaN /\ b # NaN /\ a < b
Max(a, b) == IF Less(a, b) THEN b ELSE a
Min(a, b) == IF Less(b, a) THEN b ELSE a
Minus(a, b) == IF a = NaN \/ b = NaN THEN NaN ELSE a - b

\* scorer.py 84-85; distance in thousandths, steepness in hundredths
calibrate_confidence(distance, steepness) ==
    IF distance = NaN \/ steepness = NaN THEN NaN
    ELSE LET x == steepness * distance
         IN IF x >= 0 THEN Sigmoid(x) ELSE 10000000 - Sigmoid(-x)

\* scorer.py 92-180: the keyword dimensions, in the order of the code
KeywordDimensions ==
    <<[name |-> "codePresence", keywords |-> "codeKeywords", user_only |-> FALSE,
       thresholds |-> [low |-> 1, high |-> 2], scores |-> [none |-> 0, low |-> 5, high |-> 10]],
      [name |-> "reasoningMarkers", keywords |-> "reasoningKeywords", user_only |-> TRUE,
       thresholds |-> [low |-> 1, high |-> 2], scores |-> [none |-> 0, low |-> 7, high |-> 10]],
      [name |-> "technicalTerms", keywords |-> "technicalKeywords", user_only |-> FALSE,
       thresholds |-> [low |-> 2, high |-> 4], scores |-> [none |-> 0, low |-> 5, high |-> 10]],
      [name |-> "creativeMarkers", keywords |-> "creativeKeywords", user_only |-> FALSE,
       thresholds |-> [low |-> 1, high |-> 2], scores |-> [none |-> 0, low |-> 5, high |-> 7]],
      [name |-> "simpleIndicators", keywords |-> "simpleKeywords", user_only |-> FALSE,
       thresholds |-> [low |-> 1, high |-> 2], scores |-> [none |-> 0, low |-> -10, high |-> -10]],
      [name |-> "imperativeVerbs", keywords |-> "imperativeVerbs", user_only |-> FALSE,
       thresholds |-> [low |-> 1, high |-> 2], scores |-> [none |-> 0, low |-> 3, high |-> 5]],
      [name |-> "constraintCount", keywords |-> "constraintIndicators", user_only |-> FALSE,
       thresholds |-> [low |-> 1, high |-> 3], scores |-> [none |-> 0, low |-> 3, high |-> 7]],
      [name |-> "outputFormat", keywords |-> "outputFormatKeywords", user_only |-> FALSE,
       thresholds |-> [low |-> 1, high |-> 2], scores |-> [none |-> 0, low |-> 4, high |-> 7]],
      [name |-> "referenceComplexity", keywords |-> "referenceKeywords", user_only |-> FALSE,
       thresholds |-> [low |-> 1, high |-> 2], scores |-> [none |-> 0, low |-> 3, high |-> 5]],
      [name |-> "negationComplexity", keywords |-> "negationKeywords", user_only |-> FALSE,
       thresholds |-> [low |-> 2, high |-> 3], scores |-> [none |-> 0, low |-> 3, high |-> 5]],
      [name |-> "domainSpecificity", keywords |-> "domainSpecificKeywords", user_only |-> FALSE,
       thresholds |-> [low |-> 1, high |-> 2], scores |-> [none |-> 0, low |-> 5, high |-> 8]]>>

\* float(weights.get(name, 0.0)) in hundredths
WeightOf(weights, name) ==
    IF name \in DOMAIN weights.d THEN FloatNum(FloatOf(weights.d[name])) ELSE 0

\* config.get(key, default)
ConfigGet(dict, key, default) == IF key \in DOMAIN dict.d THEN dict.d[key] ELSE default

\* scorer.py 92-183: the dimensions as pairs of name and score (in tenths)
Dimensions(text, user_text, prompt, estimated_tokens, scoring) ==
    <<[name |-> "tokenCount",
       score |-> score_token_count(estimated_tokens,
                    ConfigGet(scoring, "tokenCountThresholds", EmptyDict))]>>
    \o [k \in 1..Len(KeywordDimensions) |->
            LET dim == KeywordDimensions[k]
            IN [name |-> dim.name,
                score |-> score_keyword_match(
                            IF dim.user_only THEN user_text ELSE text,
                            ConfigGet(scoring, dim.keywords, JList(<<>>)),
                            dim.thresholds, dim.scores)]]
    \o <<[name |-> "multiStepPatterns", score |-> score_multi_step(text)],
         [name |-> "questionComplexity", score |-> score_question_complexity(prompt)],
         [name |-> "agenticTask",
          score |-> score_agentic_task(text,
                        ConfigGet(scoring, "agenticTaskKeywords", JList(<<>>))) \div 10]>>

\* scorer.py 185-188: the weighted score in thousandths (scores in tenths times
\* weights in hundredths), summed exactly; nan as soon as one weight is nan
weighted_sum(dimensions, weights) ==
    IF \E k \in 1..Len(dimensions) : WeightOf(weights, dimensions[k].name) = NaN
    THEN NaN
    ELSE SumOver([k \in 1..Len(dimensions) |->
                    dimensions[k].score * WeightOf(weights, dimensions[k].name)],
                 1..Len(dimensions))

\* scorer.py 194, 198: max(_calibrate_confidence(max(weighted_score, 0.3), steepness), 0.85)
override_confidence(weighted_score, steepness) ==
    Max(calibrate_confidence(Max(weighted_score, 300), steepness), 8500000)

ScoringResult(score, tier, confidence, agentic_score) ==
    [score |-> score, tier |-> tier, confidence |-> confidence,
     agentic_score |-> agentic_score]

\* scorer.py 190-243, on the weighted score, the agentic score and the
\* matching reasoning keywords
classify_result(weighted_score, agentic_score, reasoning_matches, scoring) ==
    LET steepness == FloatNum(FloatOf(ConfigGet(scoring, "confidenceSteepness", JInt(12))))
        boundaries == ConfigGet(scoring, "tierBoundaries", EmptyDict)
        Bound(name, default) ==
            LET b == FloatNum(FloatOf(ConfigGet(boundaries, name, default)))
            IN IF b = NaN THEN NaN ELSE 10 * b
        simple_medium == Bound("simpleMedium", JFloat(0))
        medium_complex == Bound("mediumComplex", JFloat(18))
        complex_reasoning == Bound("complexReasoning", JFloat(40))
        tier == IF Less(weighted_score, simple_medium) THEN "SIMPLE"
                ELSE IF Less(weighted_score, medium_complex) THEN "MEDIUM"
                ELSE IF Less(weighted_score, complex_reasoning) THEN "COMPLEX"
                ELSE "REASONING"
        distance ==
            IF Less(weighted_score, simple_medium)
            THEN Minus(simple_medium, weighted_score)
            ELSE IF Less(weighted_score, medium_complex)
            THEN Min(Minus(weighted_score, simple_medium),
                     Minus(medium_complex, weighted_score))
            ELSE IF Less(weighted_score, complex_reasoning)
            THEN Min(Minus(weighted_score, medium_complex),
                     Minus(complex_reasoning, weighted_score))
            ELSE Minus(weighted_score, complex_reasoning)
        confidence == calibrate_confidence(distance, steepness)
        threshold ==
            LET t == FloatNum(FloatOf(ConfigGet(scoring, "confidenceThreshold", JFloat(70))))
            IN IF t = NaN THEN NaN ELSE 100000 * t
    IN IF Cardinality(reasoning_matches) >= 2
       THEN ScoringResult(weighted_score, "REASONING",
                          override_confidence(weighted_score, steepness), agentic_score)
       ELSE IF Less(confidence, threshold)
       THEN ScoringResult(weighted_score, None, confidence, agentic_score)
       ELSE ScoringResult(weighted_score, tier, confidence, agentic_score)

\* scorer.py 88-243.  The prompt and the system prompt are sequences of
\* phrases (the empty sequence for None or ""); the result carries the score
\* in thousandths, the confidence in units of 1e-7 and the agentic score in
\* hundredths; the signals are left out.
\* The texts, the dimensions and the scores are each computed once.
classify(prompt, system_prompt, estimated_tokens, scoring) ==
    LET Scores(text, user_text) ==
            [weighted_score |->
                CHOOSE sum \in
                    {weighted_sum(dimensions,
                                  ConfigGet(scoring, "dimensionWeights", EmptyDict)) :
                        dimensions \in {Dimensions(text, user_text, prompt,
                                                   estimated_tokens, scoring)}} : TRUE,
             agentic_score |->
                score_agentic_task(text,
                    ConfigGet(scoring, "agenticTaskKeywords", JList(<<>>))),
             reasoning_matches |->
                Matches(ConfigGet(scoring, "reasoningKeywords", JList(<<>>)), user_text)]
        texts == [text |-> LowerText(system_prompt \o prompt),
                  user_text |-> LowerText(prompt)]
    IN CHOOSE result \in
            {classify_result(scores.weighted_score, scores.agentic_score,
                             scores.reasoning_matches, scoring) :
                scores \in {Scores(t.text, t.user_text) : t \in {texts}}} : TRUE

\* ------------------------------------------------------- classify alone
MaxPhrases == 2

\* the prompts and system prompts handed to classify
Texts(phrases, n) == UNION {[1..k -> phrases] : k \in 0..n}
Prompts == Texts(PromptPhrases, MaxPhrases)
SystemPrompts == {<<>>, <<"the theorem", "formally">>, <<"Return json">>}
TokenCounts == {4, 600}

\* the raw configurations the router is built with
ClassifyOverrides ==
    {{},
     {Override(<<"scoring", "confidenceSteepness">>, JFloat(100))},
     {Override(<<"scoring", "confidenceSteepness">>, JStr("nan"))},
     {Override(<<"scoring", "confidenceThreshold">>, JFloat(100))},
     {Override(<<"scoring", "tierBoundaries", "simpleMedium">>, JFloat(150))},
     {Override(<<"scoring", "dimensionWeights", "reasoningMarkers">>, JFloat(-200))},
     {Override(<<"scoring", "reasoningKeywords">>, Strs(<<"PROVE", "lemma">>))}}

\* SmartRouterProvider.__init__: self.scoring_config
scoring_config(raw) == normalize_config(raw).d.scoring

\* the routers: the raw configuration and the scoring configuration that
\* __init__ keeps from it
ClassifyRouters ==
    {[overrides |-> built.overrides, scoring_config |-> scoring_config(built.raw)] :
        built \in {[overrides |-> o, raw |-> BuildRaw(o)] : o \in ClassifyOverrides}}

ClassifyInit ==
    /\ cl \in {[phase |-> "input", prompt |-> p, system_prompt |-> sp,
                estimated_tokens |-> n, overrides |-> router.overrides,
                scoring_config |-> router.scoring_config, result |-> Nil] :
                    p \in Prompts, sp \in SystemPrompts, n \in TokenCounts,
                    router \in ClassifyRouters}
    /\ providers = EmptyCatalog /\ config = default_config
    /\ context = [c \in Contexts |-> EmptyContext]
    /\ g_stats = ZeroStats
    /\ req = [r \in Requests |-> IdleRequest]
    /\ calls = [r \in Requests |-> <<>>]
    /\ rk = Nil /\ nz = Nil /\ ta = Nil

\* classify(prompt, system_prompt, estimated_tokens, self.scoring_config)
ClassifyCall ==
    /\ cl.phase = "input"
    /\ cl' = [cl EXCEPT !.phase = "done",
                        !.result = classify(cl.prompt, cl.system_prompt,
                                            cl.estimated_tokens, cl.scoring_config)]
    /\ UNCHANGED <<providers, config, context, g_stats, req, calls, rk, nz, ta>>

ClassifyNext == ClassifyCall

ClassifySpec == ClassifyInit /\ [][ClassifyNext]_vars

\* ======================================================== claims: classify
Classified == cl # Nil /\ cl.phase = "done"
ReasoningKeywords == ConfigGet(cl.scoring_config, "reasoningKeywords", JList(<<>>))
\* the distinct reasoning keywords that occur in the user text
DistinctReasoning ==
    {ReasoningKeywords.items[i].s : i \in Matches(ReasoningKeywords, LowerText(cl.prompt))}

\* C16: for every prompt whose user text contains at least two distinct
\* reasoning keywords, classify returns tier REASONING with a confidence of
\* at least 0.85, whatever the score, the system prompt, the boundaries and
\* the threshold are.
C16_ReasoningOverride ==
    Classified /\ Cardinality(DistinctReasoning) >= 2 =>
        /\ cl.result.tier = "REASONING"
        /\ cl.result.confidence # NaN
        /\ cl.result.confidence >= 8500000

\* the configuration holds no nan where classify reads a number
NumbersAreNumbers ==
    LET c == cl.scoring_config
    IN /\ c.d.confidenceSteepness.s # "nan" /\ c.d.confidenceThreshold.s # "nan"
       /\ \A k \in DOMAIN c.d.dimensionWeights.d : c.d.dimensionWeights.d[k].s # "nan"
       /\ \A k \in DOMAIN c.d.tierBoundaries.d : c.d.tierBoundaries.d[k].s # "nan"

\* with numbers in the configuration the override holds, and a text with
\* fewer than two matching entries gets REASONING only from the boundaries:
\* the keywords of the system prompt do not count
OverrideUnlessNaN ==
    Classified /\ NumbersAreNumbers =>
        /\ Cardinality(DistinctReasoning) >= 2 =>
                cl.result.tier = "REASONING" /\ cl.result.confidence >= 8500000
        /\ /\ Cardinality(Matches(ReasoningKeywords, LowerText(cl.prompt))) < 2
           /\ cl.result.tier = "REASONING"
           => cl.result.score >=
                10 * cl.scoring_config.d.tierBoundaries.d.complexReasoning.n

\* the override acts with a calibrated confidence below the floor
OverrideAtFloor ==
    /\ Classified /\ NumbersAreNumbers
    /\ Cardinality(DistinctReasoning) >= 2
    /\ Len(cl.system_prompt) > 0
    /\ cl.result.confidence = 8500000

\* =============================================== chat: the tier adjustments
\* len(phrase)
PhraseLen(phrase) ==
    CASE phrase = "Prove" -> 5 [] phrase = "the theorem" -> 11
      [] phrase = "step by step" -> 12 [] phrase = "formally" -> 8
      [] phrase = "What is Python?" -> 15 [] phrase = "read file, edit" -> 15
      [] phrase = "deploy and fix step 1" -> 21 [] phrase = "debug" -> 5
      [] phrase = "Return json" -> 11 [] phrase = "Use a SCHEMA" -> 12

\* len(text) of the phrases joined by single spaces
TextLen(text) ==
    IF Len(text) = 0 THEN 0
    ELSE SumOver([i \in 1..Len(text) |-> PhraseLen(text[i])], 1..Len(text)) + Len(text) - 1

\* __init__.py 430-431: max(1, int(math.ceil(len("%s %s" % (system, prompt)) / 4.0)))
estimated_tokens(prompt, system_prompt) ==
    LET length == TextLen(system_prompt) + 1 + TextLen(prompt)
    IN IF (length + 3) \div 4 < 1 THEN 1 ELSE (length + 3) \div 4

\* re.search(r"json|structured|schema", phrase, re.IGNORECASE)
StructuredPattern(phrase) == phrase \in {"Return json", "Use a SCHEMA"}

\* __init__.py 457: system_prompt and re.search(...)
structured_output(system_prompt) ==
    /\ Len(system_prompt) > 0
    /\ \E i \in 1..Len(system_prompt) : StructuredPattern(system_prompt[i])

\* __init__.py 427-433: what chat derives from the request before the tier
\* adjustments
ChatOf(prompt, system_prompt, has_tools, scoring) ==
    [prompt |-> prompt,
     result |-> classify(prompt, system_prompt,
                         estimated_tokens(prompt, system_prompt), scoring),
     estimated_tokens |-> estimated_tokens(prompt, system_prompt),
     structured |-> structured_output(system_prompt),
     has_tools |-> has_tools]

\* self.overrides and the preference tables, as the executor reads them
PlainOverrides(o) ==
    [maxTokensForceComplex |-> o.d.maxTokensForceComplex.n,
     structuredOutputMinTier |-> o.d.structuredOutputMinTier.s,
     ambiguousDefaultTier |-> o.d.ambiguousDefaultTier.s,
     agenticMode |-> o.d.agenticMode.n = 1]
PlainPreferences(p) ==
    [t \in DOMAIN p.d |->
        [preferred_models |->
            [i \in 1..Len(p.d[t].d.preferred_models.items) |->
                p.d[t].d.preferred_models.items[i].s],
         capabilities |->
            [c \in DOMAIN p.d[t].d.capabilities.d |-> p.d[t].d.capabilities.d[c].n = 1]]]

\* SmartRouterProvider.__init__, lines 349-353, on the normalized configuration
RouterConfig(normalized) ==
    [overrides |-> PlainOverrides(normalized.d.overrides),
     tierPreferences |-> PlainPreferences(normalized.d.tierPreferences),
     agenticPreferences |-> PlainPreferences(normalized.d.agenticPreferences),
     scoring |-> normalized.d.scoring]

\* a catalog on which the two preference tables rank differently
TierCatalog ==
    <<SmartRouterEntry,
      [id |-> "provider_a",
       models |-> <<Entry("gemini-2.5-flash", "gemini-2.5-flash", <<1>>, FALSE, FALSE),
                    Entry("deepseek-reasoner", "deepseek-reasoner", <<20>>, FALSE, TRUE)>>],
      [id |-> "provider_b",
       models |-> <<Entry("gpt-4o-mini", "gpt-4o-mini", <<2>>, TRUE, FALSE),
                    Entry("claude-sonnet-4", "claude-sonnet-4", <<30>>, TRUE, TRUE)>>]>>

\* the requests: the last user message, the system message and the tools
TierPrompts ==
    {<<>>, <<"What is Python?">>, <<"the theorem">>,
     <<"Prove", "the theorem", "step by step">>, <<"debug">>,
     <<"read file, edit">>, <<"deploy and fix step 1">>,
     <<"deploy and fix step 1", "debug">>,
     <<"read file, edit", "deploy and fix step 1">>}
TierSystemPrompts ==
    {<<>>, <<"the theorem", "formally">>, <<"Return json">>, <<"Use a SCHEMA">>}

\* the "overrides" sections the router is configured with
TierOverrides ==
    {{},
     {Override(<<"overrides", "maxTokensForceComplex">>, JInt(5))},
     {Override(<<"overrides", "maxTokensForceComplex">>, JInt(5)),
      Override(<<"overrides", "ambiguousDefaultTier">>, JStr("REASONING")),
      Override(<<"overrides", "structuredOutputMinTier">>, JStr("REASONING"))},
     {Override(<<"overrides", "ambiguousDefaultTier">>, JStr("simple")),
      Override(<<"overrides", "structuredOutputMinTier">>, JStr("SIMPLE"))},
     {Override(<<"overrides", "ambiguousDefaultTier">>, JStr("REASONING")),
      Override(<<"overrides", "structuredOutputMinTier">>, JStr("complex"))},
     {Override(<<"overrides", "ambiguousDefaultTier">>, JStr("none")),
      Override(<<"overrides", "structuredOutputMinTier">>, JInt(7))},
     {Override(<<"overrides", "ambiguousDefaultTier">>, JStr("COMPLEX")),
      Override(<<"overrides", "agenticMode">>, JInt(1))}}

TierRouters ==
    {RouterConfig(normalized) :
        normalized \in {normalize_config(raw) : raw \in {BuildRaw(o) : o \in TierOverrides}}}

TierInit ==
    /\ ta \in [prompt : TierPrompts, system_prompt : TierSystemPrompts,
               has_tools : BOOLEAN]
    /\ config \in TierRouters
    /\ providers = TierCatalog
    /\ context = [c \in Contexts |-> EmptyContext]
    /\ g_stats = ZeroStats
    /\ req = [r \in Requests |-> IdleRequest]
    /\ calls = [r \in Requests |-> <<>>]
    /\ rk = Nil /\ nz = Nil /\ cl = Nil

\* one turn after the other of the conversation "c1", each with the request ta
TierChat(r) ==
    /\ req[r].pc = "idle"
    /\ \A q \in Requests : q < r => req[q].pc = "done"
    /\ \E chat \in {ChatOf(ta.prompt, ta.system_prompt, ta.has_tools, config.scoring)} :
            ChatBegin(r, chat, "c1")
    /\ UNCHANGED <<providers, config, rk, nz, cl, ta>>

TierNext == \E r \in Requests : TierChat(r) \/ InvocationFails(r) \/ InvocationSucceeds(r)

TierSpec == TierInit /\ [][TierNext]_vars

\* ================================================ claims: tier adjustments
\* what the classifier returned for the request of turn r, and the rules of
\* the claims below applied to it
Forced(r) == req[r].chat.estimated_tokens > config.overrides.maxTokensForceComplex
Ambiguous(r) == req[r].chat.result.tier = None
ExpectedBase(r) ==
    IF Forced(r) THEN "COMPLEX"
    ELSE IF Ambiguous(r) THEN config.overrides.ambiguousDefaultTier
    ELSE req[r].chat.result.tier
\* the system prompt matches json, structured or schema, whatever the case
SystemPromptMatches ==
    \E i \in 1..Len(ta.system_prompt) :
        KeywordsIn(TextLower(ta.system_prompt[i])) \cap {"json", "structured", "schema"} # {}
HigherOf(a, b) == IF TIER_RANK[a] >= TIER_RANK[b] THEN a ELSE b
ExpectedTier(r) ==
    IF SystemPromptMatches
    THEN HigherOf(ExpectedBase(r), config.overrides.structuredOutputMinTier)
    ELSE ExpectedBase(r)
Pin == context["c1"].selection

\* C17: the tier that chat hands to ranking, records in the statistics and
\* stores in the pin is one of the four tiers; an ambiguous classification
\* that was not force-escalated is replaced by the ambiguous-default tier
\* (before the structured-output adjustment) with confidence 0.5.
C17_TierIsOneOfFour ==
    /\ \A r \in Requests : Started(r) =>
        /\ req[r].tier \in TierSet
        /\ Ambiguous(r) /\ ~Forced(r) =>
                /\ req[r].tier = ExpectedTier(r)
                /\ req[r].confidence = 5000000
        /\ Responded(r) =>
                /\ req[r].outcome.routing.tier = req[r].tier
                /\ Ambiguous(r) /\ ~Forced(r) =>
                        req[r].outcome.routing.confidence = 5000000
    /\ SumOver(g_stats.tiers, TierSet) = g_stats.total_routed
    /\ \A r \in Requests : Responded(r) => g_stats.tiers[req[r].tier] >= 1
    /\ Pin # Nil =>
        /\ Pin.tier \in TierSet
        /\ \E r \in Requests : Responded(r) /\ Pin.tier = req[r].tier
        /\ (\A r \in Requests : Started(r) => Ambiguous(r) /\ ~Forced(r)) =>
                Pin.confidence = 5000000

\* an ambiguous request answered under a configured default of REASONING
C17_Witness ==
    \E r \in Requests :
        /\ Responded(r) /\ Ambiguous(r) /\ ~Forced(r)
        /\ config.overrides.ambiguousDefaultTier = "REASONING"
        /\ req[r].chat.result.confidence # 5000000
        /\ req[r].tier = "REASONING" /\ req[r].confidence = 5000000
        /\ Pin # Nil /\ Pin.tier = "REASONING" /\ Pin.confidence = 5000000
        /\ g_stats.tiers["REASONING"] >= 1 /\ g_stats.ambiguous >= 1

\* C18: whenever the estimated token count exceeds maxTokensForceComplex the
\* tier before the structured-output adjustment is COMPLEX with confidence
\* 0.95, whatever the classifier returned, and the ambiguous substitution is
\* not applied; an estimate equal to the limit does not exceed it, and the
\* confidence is then the classifier's, or 0.5 for an ambiguous result.
C18_ForceComplex ==
    \A r \in Requests : Started(r) =>
        /\ Forced(r) =>
            /\ req[r].confidence = 9500000
            /\ req[r].tier =
                    IF SystemPromptMatches
                    THEN HigherOf("COMPLEX", config.overrides.structuredOutputMinTier)
                    ELSE "COMPLEX"
            /\ g_stats.ambiguous = 0
        /\ ~Forced(r) =>
            req[r].confidence =
                IF Ambiguous(r) THEN 5000000 ELSE req[r].chat.result.confidence

\* a force-escalated request that the classifier found ambiguous, next to a
\* configured ambiguous default of REASONING
C18_Witness ==
    \E r \in Requests :
        /\ Responded(r) /\ Forced(r) /\ Ambiguous(r)
        /\ config.overrides.ambiguousDefaultTier = "REASONING"
        /\ ~SystemPromptMatches
        /\ req[r].tier = "COMPLEX" /\ req[r].outcome.routing.confidence = 9500000
        /\ g_stats.ambiguous = 0

\* C19: the structured-output adjustment only raises the tier: when the
\* system prompt matches json, structured or schema (case-insensitive) the
\* tier after it has rank max(rank of the current tier, rank of
\* structuredOutputMinTier); otherwise the tier is unchanged.
C19_StructuredOnlyRaises ==
    \A r \in Requests : Started(r) =>
        /\ TIER_RANK[req[r].tier] >= TIER_RANK[ExpectedBase(r)]
        /\ IF SystemPromptMatches
           THEN TIER_RANK[req[r].tier] =
                    IF TIER_RANK[ExpectedBase(r)]
                            >= TIER_RANK[config.overrides.structuredOutputMinTier]
                    THEN TIER_RANK[ExpectedBase(r)]
                    ELSE TIER_RANK[config.overrides.structuredOutputMinTier]
           ELSE req[r].tier = ExpectedBase(r)

\* an upper-case SCHEMA in the system prompt raises a SIMPLE request to COMPLEX
C19_Witness ==
    \E r \in Requests :
        /\ Responded(r)
        /\ ta.system_prompt = <<"Use a SCHEMA">>
        /\ ExpectedBase(r) = "SIMPLE"
        /\ config.overrides.structuredOutputMinTier = "COMPLEX"
        /\ req[r].tier = "COMPLEX"

\* the candidates that ranking gives for turn r from one preference table
RankedWith(r, table) == rank_candidates(req[r].tier, FALSE, providers, table, table)
AgenticMatches ==
    Matches(ConfigGet(config.scoring, "agenticTaskKeywords", JList(<<>>)),
            LowerText(ta.system_prompt \o ta.prompt))

\* C20: a request that is not pinned is ranked with the agentic table exactly
\* when it carries tools, or the agentic score is at least 0.75, or the
\* force-agentic override is set, and with the other table otherwise; the
\* agentic score is 0, 0.2, 0.6 or 1.0, so the text alone triggers agentic
\* routing exactly when at least four agentic keywords match.
C20_AgenticTable ==
    \A r \in Requests : Started(r) =>
        /\ req[r].chat.result.agentic_score \in {0, 20, 60, 100}
        /\ ~req[r].pinned =>
            /\ req[r].candidates =
                    RankedWith(r, IF \/ ta.has_tools
                                     \/ req[r].chat.result.agentic_score >= 75
                                     \/ config.overrides.agenticMode
                                  THEN config.agenticPreferences
                                  ELSE config.tierPreferences)
            /\ ~ta.has_tools /\ ~config.overrides.agenticMode =>
                    (req[r].candidates = RankedWith(r, config.agenticPreferences)
                        <=> Cardinality(AgenticMatches) >= 4)

\* four matching keywords and nothing else: the agentic table ranks, and
\* ranks differently from the other table
C20_Witness ==
    \E r \in Requests :
        /\ Responded(r) /\ ~req[r].pinned
        /\ ~ta.has_tools /\ ~config.overrides.agenticMode
        /\ Cardinality(AgenticMatches) = 4
        /\ req[r].candidates = RankedWith(r, config.agenticPreferences)
        /\ req[r].candidates # RankedWith(r, config.tierPreferences)
        /\ req[r].outcome.routing.agentic

\* ---------------------------------------------------------------------
\* the keys of the conversation context that chat calls write
\* ---------------------------------------------------------------------

\* the context as the caller handed it in
InitialContext(c) == IF c = "c1" THEN EmptyContext ELSE StaleContext

\* the keys whose value is no longer the caller's
ChangedKeys(c) ==
    {k \in DOMAIN context[c] : context[c][k] # InitialContext(c)[k]}

\* the keys written by lines 408 and 419-423
WrittenKeys == {"selection", "provider", "modelInfo", "modelCost"}

\* C21 as stated: across any sequence of chat calls at most three keys of the
\* conversation context are written, the Selection Pin and two informational
\* keys.
C21_AtMostThreeKeys ==
    \A c \in Contexts : Cardinality(ChangedKeys(c)) <= 3

\* C21: across any sequence of chat calls the keys of the conversation
\* context that are written are among four, the Selection Pin, the provider
\* id, the model descriptor and the model cost; every other key of the
\* context is neither added nor removed nor modified.
C21_WritesFourKeys ==
    \A c \in Contexts :
        /\ DOMAIN context[c] = DOMAIN InitialContext(c)
        /\ ChangedKeys(c) \subseteq WrittenKeys

\* a context after a successful dispatch: all four keys are written, the
\* caller's key is as it was
C21_Witness ==
    \E r \in Requests :
        /\ Responded(r)
        /\ req[r].ctx # None
        /\ ChangedKeys(req[r].ctx) = WrittenKeys
        /\ context[req[r].ctx].threadId = "t1"

\* ---------------------------------------------------------------------
\* the Selection Pin on the turns after the one that recorded it
\* ---------------------------------------------------------------------

\* request r, served through the pin of its context, gets its response in
\* this step
PinnedSuccess(r) ==
    /\ req[r].pc = "awaiting" /\ req[r].pinned
    /\ req'[r].pc = "done" /\ req'[r].outcome.kind = "response"

\* C22: a successful dispatch served through an existing pin leaves all five
\* fields of the pin record (provider, model, tier, confidence, agentic flag)
\* as the dispatch that created the pin recorded them, even when the later
\* turn classifies to a different tier, confidence or agentic flag.
C22_PinReusedVerbatim ==
    [][\A r \in Requests :
            PinnedSuccess(r) =>
                context'[req[r].ctx].selection = context[req[r].ctx].selection]_vars

\* what line 511 does on those turns: provider and model of the pin are the
\* pinned candidate's, tier, confidence and agentic flag are the later turn's
C22_PinRewritten ==
    [][\A r \in Requests :
            PinnedSuccess(r) =>
                context'[req[r].ctx].selection =
                    [provider |-> req[r].candidates[1].provider,
                     model |-> req[r].candidates[1].model,
                     tier |-> req[r].tier,
                     confidence |-> Round6(req[r].confidence),
                     agentic |-> req[r].use_agentic]]_vars

\* two turns one after the other on one context: the second is served by the
\* pin of the first and leaves a pin with another tier
C22_TierOverwritten ==
    /\ Responded(1) /\ Responded(2)
    /\ req[1].ctx = req[2].ctx
    /\ ~req[1].pinned /\ req[2].pinned
    /\ req[1].tier # req[2].tier
    /\ context[req[2].ctx].selection.tier = req[2].tier
    /\ context[req[2].ctx].selection.model = req[1].outcome.routing.model

\* ---------------------------------------------------------------------
\* a pinned turn whose invocation fails
\* ---------------------------------------------------------------------

\* request r, served through a pin, takes a step that is not a response
PinnedStep(r) ==
    /\ req'[r] # req[r]
    /\ req'[r].pinned
    /\ ~(req'[r].pc = "done" /\ req'[r].outcome.kind = "response")

\* C23: when the context carries a valid Selection Pin and the invocation of
\* the pinned provider and model fails, the request fails with that
\* invocation's exception after exactly one invocation: the candidate list is
\* the pin alone (no ranking), no other candidate is tried, and no step of
\* the request changes the pin.
C23_PinnedFailure ==
    [][\A r \in Requests :
            PinnedStep(r) =>
                LET selection == context[req'[r].ctx].selection
                    log == calls'[r]
                IN /\ context'[req'[r].ctx].selection = selection
                   /\ Len(req'[r].candidates) = 1
                   /\ req[r].pc = "idle" =>
                        /\ PinResolves(selection)
                        /\ CandidateKey(req'[r].candidates[1]) = ResolvedPin(selection)
                   /\ Len(log) = 1
                   /\ CallKey(log[1]) = CandidateKey(req'[r].candidates[1])
                   /\ req'[r].pc = "done" =>
                        /\ log[1].status = "failed"
                        /\ req'[r].outcome.kind = "error"
                        /\ req'[r].outcome.error =
                                ProviderException(log[1].provider, log[1].model)]_vars

\* a pinned turn has failed after its one invocation and the pin is still
\* there for the next turn
C23_Witness ==
    \E r \in Requests :
        /\ Failed(r) /\ req[r].pinned
        /\ Len(calls[r]) = 1 /\ calls[r][1].status = "failed"
        /\ req[r].outcome.error = ProviderException(calls[r][1].provider, calls[r][1].model)
        /\ PinResolves(context[req[r].ctx].selection)
        /\ ResolvedPin(context[req[r].ctx].selection) = CallKey(calls[r][1])

\* ---------------------------------------------------------------------
\* the tool_call capability of the models an agentic request invokes
\* ---------------------------------------------------------------------

\* the agentic preference entry of the tier of request r requires tool_call
RequiresToolCall(r) ==
    /\ req[r].tier \in DOMAIN config.agenticPreferences
    /\ "tool_call" \in DOMAIN config.agenticPreferences[req[r].tier].capabilities
    /\ config.agenticPreferences[req[r].tier].capabilities["tool_call"]

\* the descriptor of the model an invocation went to
InvokedInfo(call) == model_info(GetProvider(providers, call.provider), call.model)

\* some model that ranking may return has the capability
SomeToolCallModel ==
    \E i \in 1..Len(providers) :
        /\ providers[i].id # SMART_ROUTING
        /\ \E j \in 1..Len(providers[i].models) : providers[i].models[j].tool_call

\* C24: whenever a request is routed as agentic and the agentic preference
\* entry of its tier requires tool_call, every model the executor invokes for
\* that request has a truthy tool_call capability, after any sequence of
\* earlier turns on the same context and for every catalog.
C24_AgenticToolCall ==
    \A r \in Requests :
        Started(r) /\ req[r].use_agentic /\ RequiresToolCall(r) =>
            \A k \in 1..Len(calls[r]) : InvokedInfo(calls[r][k]).tool_call

\* what the capability filter of router.py 93-99 gives: the same, for a
\* request that ranked (no pin) on a catalog that has a tool_call model
C24_RankedAgenticToolCall ==
    \A r \in Requests :
        /\ Started(r) /\ req[r].use_agentic /\ RequiresToolCall(r)
        /\ ~req[r].pinned /\ SomeToolCallModel
        => \A k \in 1..Len(calls[r]) : InvokedInfo(calls[r][k]).tool_call

\* an agentic turn answered through the pin of an earlier turn by a model
\* without tool_call, on a catalog that has a tool_call model
C24_PinBypasses ==
    \E r \in Requests :
        /\ Responded(r) /\ req[r].use_agentic /\ RequiresToolCall(r)
        /\ req[r].pinned /\ SomeToolCallModel
        /\ ~InvokedInfo(calls[r][1]).tool_call

\* an agentic turn that ranked on a catalog without any tool_call model and
\* was answered by a last-resort candidate
C24_LastResortBypasses ==
    \E r \in Requests :
        /\ Responded(r) /\ req[r].use_agentic /\ RequiresToolCall(r)
        /\ ~req[r].pinned /\ ~SomeToolCallModel
        /\ ~InvokedInfo(calls[r][Len(calls[r])]).tool_call

\* ---------------------------------------------------------------------
\* the reasoning override and a keyword listed more than once
\* ---------------------------------------------------------------------

\* the tier that lines 209-227 of scorer.py map the returned score to
BoundaryTier ==
    LET boundaries == ConfigGet(cl.scoring_config, "tierBoundaries", EmptyDict)
        Bound(name, default) ==
            LET b == FloatNum(FloatOf(ConfigGet(boundaries, name, default)))
            IN IF b = NaN THEN NaN ELSE 10 * b
    IN IF Less(cl.result.score, Bound("simpleMedium", JFloat(0))) THEN "SIMPLE"
       ELSE IF Less(cl.result.score, Bound("mediumComplex", JFloat(18))) THEN "MEDIUM"
       ELSE IF Less(cl.result.score, Bound("complexReasoning", JFloat(40))) THEN "COMPLEX"
       ELSE "REASONING"

\* the entries of the reasoning keyword list that occur in the user text
ReasoningEntries == Matches(ReasoningKeywords, LowerText(cl.prompt))

\* C25: a user text in which exactly one distinct reasoning keyword occurs
\* does not trigger the reasoning override: its tier is the one of the
\* boundary mapping, or none below the confidence threshold, also when the
\* configured list holds that keyword more than once.
C25_OneKeywordNoOverride ==
    Classified /\ Cardinality(DistinctReasoning) = 1 =>
        cl.result.tier \in {BoundaryTier, None}

\* what lines 196-199 of scorer.py count: the matching entries of the list
C25_CountsEntries ==
    Classified =>
        IF Cardinality(ReasoningEntries) >= 2
        THEN cl.result.tier = "REASONING"
        ELSE cl.result.tier \in {BoundaryTier, None}

\* the user text "the theorem" under the default list, where theorem is
\* listed twice: one keyword, two entries, REASONING at a MEDIUM score
C25_TheoremAlone ==
    /\ Classified
    /\ cl.prompt = <<"the theorem">> /\ cl.overrides = {}
    /\ DistinctReasoning = {"theorem"}
    /\ Cardinality(ReasoningEntries) = 2
    /\ BoundaryTier = "MEDIUM"
    /\ cl.result.tier = "REASONING"

====
